---------------------------- MODULE Spec2Model ----------------------------
(***************************************************************************)
(* Model of server-mcp-crm-googlesheet:                                     *)
(*   services/google_calendar_meet/calendar_service.py  (CalendarService)   *)
(*   services/google_calendar_meet/services.py          (script variant)    *)
(*   services/google_sheet/crm_service.py               (CRMService)        *)
(*   services/google_sheet/project_service.py           (ProjectService)    *)
(*   services/google_sheet/meeting_service.py           (MeetingService)    *)
(*   mcp.py                                             (tool layer)        *)
(*                                                                         *)
(* Time.  An instant is an integer number of minutes of UTC.  Minute 0 is   *)
(* 00:00 UTC of the calendar date on which "now" falls in the configured    *)
(* zone.  A datetime is a record [inst, off]: the instant and the utcoffset *)
(* (minutes) of its tzinfo.  An ISO-8601 string is a record [wall, off]:    *)
(* the wall-clock reading and the offset suffix.                            *)
(***************************************************************************)
EXTENDS Integers, Sequences, FiniteSets, TLC

VARIABLES
    \* ---- one day of check_availability (SpecDay) ----
    d_impl,         \* "none" | "calendar_service" | "services"
    d_start,        \* start  (datetime): the window's open bound
    d_end,          \* end_day (datetime): the window's close bound
    d_busy,         \* busy_slots: the provider's answer (list of ISO pairs)
    d_free,         \* free_slots: candidate gaps, before formatting
    d_merged,       \* services.py: merged busy intervals
    d_slots,        \* slots_fmt / slots_formatted: what the report carries
    \* ---- CalendarService.check_availability, the scan (SpecScan) ----
    now,            \* datetime.now(tz)
    today_wd,       \* now.date().weekday(): 0 = Monday .. 6 = Sunday
    tz_lmt,         \* utcoffset of the tzinfo object of TIMEZONE
    scan_pc,        \* "loop" | "done" | "raised" (a query's exception left the call)
    offset,
    dias_encontrados,
    disponibilidad,
    queries,        \* the free/busy queries issued, in order
    saturated,      \* every answer so far left no instant of its window free
    \* ---- create_meet_event / get_event_details (Spec) ----
    sys_tz,         \* utcoffset of the host's local zone (naive datetimes)
    events,         \* the provider's calendar: event id -> event
    asked,          \* event id -> the summary and instants its creator asked
                    \* for, and the events in the calendar at its creator's query
    pc,             \* per worker: "idle" | "checked"
    req,            \* per worker: the arguments of its invocation in progress
    answer,         \* per worker: busy_slots of its last free/busy query
    inserts,        \* per worker: inserts issued by its last invocation
    calls,          \* per worker: the provider calls of its last invocation,
                    \* in order, each with whether it returned (ok) or raised
    result,         \* per worker: what its last invocation returned, or the
                    \* exception that left it
    \* ---- the spreadsheet services (SpecSheet) ----
    ws_name,        \* the worksheet the calls work on: "Lead" | "Projects" | "Meetings"
    ws_rows,        \* its data rows (sheet row i + 1 is ws_rows[i]): column -> cell
    clock,          \* the wall clock, in seconds
    sh_call,        \* the last service call: its name and arguments
    sh_ret,         \* what it returned
    sh_writes,      \* its update_cell calls, in order: (row, col, value)
    sh_created,     \* the arguments and id of the last successful
                    \* create_client, while no later call has written a cell
    \* ---- CalendarService.get_service (SpecService) ----
    token_file,     \* the token file: "missing" | "empty" | "malformed" |
                    \* "incomplete" | "valid"
    service,        \* CalendarService._service: None, or the client built
    builds,         \* clients built so far by build("calendar", "v3", ...)
    attempts,       \* calls of get_credentials so far
    got,            \* what each get_service call gave, in order: a handle
                    \* or the exception that left it
    \* ---- create_client, cell by cell (SpecSteps) ----
    cc_pc,          \* per worker: "idle" | "writing" | "done"
    cc_call,        \* per worker: arguments, client_id, next_row, and the
                    \* rows of the sheet when the call began
    cc_done,        \* per worker: update_cell calls that returned
    cc_ret          \* per worker: what create_client returned

day_vars == <<d_impl, d_start, d_end, d_busy, d_free, d_merged, d_slots>>
scan_vars == <<now, today_wd, tz_lmt, scan_pc, offset, dias_encontrados,
               disponibilidad, queries, saturated>>
book_vars == <<sys_tz, events, asked, pc, req, answer, inserts, calls, result>>
sheet_vars == <<ws_name, ws_rows, clock, sh_call, sh_ret, sh_writes, sh_created>>
handle_vars == <<token_file, service, builds, attempts, got>>
step_vars == <<cc_pc, cc_call, cc_done, cc_ret>>
vars == <<day_vars, scan_vars, book_vars, sheet_vars, handle_vars, step_vars>>

-----------------------------------------------------------------------------
(* Bounds of the model *)

\* longest busy list the provider answers with in SpecDay
MaxBusy == 2
\* most events the calendar holds in Spec
MaxEvents == 2

-----------------------------------------------------------------------------
(* Program constants *)

\* utcoffset of TIMEZONE (America/Argentina/Buenos_Aires, UTC-03:00, no DST)
TzOffset == -180
\* utcoffset carried by the un-localized pytz tzinfo of that zone (LMT-03:54):
\* what datetime.replace(tzinfo=tz) attaches
DefaultLmtOffset == -234
\* time(8, 0) and time(17, 0), minutes of the day
OpenMinute == 480
CloseMinute == 1020
\* (e - s).total_seconds() >= 900
MinSlotSeconds == 900
\* while dias_encontrados < 3 and offset < 14
DaysNeeded == 3
MaxOffset == 14
\* date.weekday() >= 5
FirstWeekendDay == 5

\* services.py: pytz.timezone("America/Bogota"), UTC-05:00, LMT-04:56
SvcTzOffset == -300
SvcLmtOffset == -296

MinutesPerDay == 1440

\* TIMEZONE is read from the environment.  A zone of fixed offset carries its
\* own offset in its tzinfo; the default zone carries LMT.
LmtOffsets == {TzOffset, DefaultLmtOffset}

-----------------------------------------------------------------------------
(* datetime *)

DateTime(i, o) == [inst |-> i, off |-> o]

\* datetime.isoformat(): wall-clock reading plus offset suffix
isoformat(d) == [wall |-> d.inst + d.off, off |-> d.off]

\* datetime.fromisoformat() of a string with an offset suffix
fromisoformat(str) == DateTime(str.wall - str.off, str.off)

\* dt.astimezone(tz): same instant, the offset of zone tz at that instant
astimezone(d, tz) == DateTime(d.inst, tz)

\* datetime.combine(date, time).replace(tzinfo=tz): the wall clock is kept and
\* the offset of the tzinfo object is attached
replace_tzinfo(wall, lmt) == DateTime(wall - lmt, lmt)

\* datetime.now(tz) for a wall-clock reading of today in zone tz
now_at(wall, tz) == DateTime(wall - tz, tz)

\* dt.date(): the calendar date of the datetime's own wall clock (day number)
date_of(d) == (d.inst + d.off) \div MinutesPerDay

\* strftime("%I:%M %p"): hour and minute of the wall clock, the date is lost
strftime_time(d) == (d.inst + d.off) % MinutesPerDay

\* max(a, b) of two datetimes: the first of the largest
dtmax(a, b) == IF b.inst > a.inst THEN b ELSE a
dtmin(a, b) == IF b.inst < a.inst THEN b ELSE a

\* (e - s).total_seconds()
total_seconds(s, e) == (e.inst - s.inst) * 60

\* Python's None
None == <<"None">>

-----------------------------------------------------------------------------
(* CalendarService.check_availability: one day *)

\* date.weekday() of the date `days` after today
weekday_of(wd_today, days) == (wd_today + days) % 7

\* date.strftime("%A %d/%m/%Y"): the name of the weekday and the date
strftime_date(wd_today, today, date) ==
    [weekday |-> weekday_of(wd_today, date - today), date |-> date]

\* if date.weekday() >= 5
is_weekend_sunday_only(wd) == wd > FirstWeekendDay
is_weekend(wd) == wd >= FirstWeekendDay

\* def day_range(offset)
day_range(today, off, lmt) ==
    LET date == today + off
    IN  [start_day |-> replace_tzinfo(date * MinutesPerDay + OpenMinute, lmt),
         end_day   |-> replace_tzinfo(date * MinutesPerDay + CloseMinute, lmt),
         date      |-> date]

\* start = max(now, start_day) if offset == 0 else start_day
window_start(t_now, off, start_day) ==
    IF off = 0 THEN dtmax(t_now, start_day) ELSE start_day

\* current_time = max(current_time, e)
advance_to_end(current_time, e) == e
advance(current_time, e) == dtmax(current_time, e)

\* for slot in busy_slots: ... (lines 200-207)
RECURSIVE sweep(_, _, _, _, _)
sweep(slots, start, end_day, current_time, free_slots) ==
    IF slots = <<>>
    THEN [current_time |-> current_time, free_slots |-> free_slots]
    ELSE LET s == astimezone(fromisoformat(Head(slots).start), TzOffset)
             e == astimezone(fromisoformat(Head(slots).end), TzOffset)
         IN  IF e.inst <= start.inst \/ s.inst >= end_day.inst
             THEN sweep(Tail(slots), start, end_day, current_time, free_slots)
             ELSE sweep(Tail(slots), start, end_day, advance(current_time, e),
                        IF current_time.inst < s.inst
                        THEN Append(free_slots, <<current_time, s>>)
                        ELSE free_slots)

\* lines 197-210: the sweep and the gap after the last busy interval
free_slots_of(start, end_day, busy_slots) ==
    LET r == sweep(busy_slots, start, end_day, start, <<>>)
    IN  IF r.current_time.inst < end_day.inst
        THEN Append(r.free_slots, <<r.current_time, end_day>>)
        ELSE r.free_slots

\* if (e - s).total_seconds() >= 900
LongEnoughNoFilter(s, e) == TRUE
LongEnough(s, e) == total_seconds(s, e) >= MinSlotSeconds

fmt(s, e) ==
    [inicio |-> strftime_time(s), fin |-> strftime_time(e),
     inicio_iso |-> isoformat(s), fin_iso |-> isoformat(e)]

\* slots_fmt = [ {...} for s, e in free_slots if ... ]
RECURSIVE slots_fmt_of(_)
slots_fmt_of(free_slots) ==
    IF free_slots = <<>> THEN <<>>
    ELSE LET s == Head(free_slots)[1]
             e == Head(free_slots)[2]
             rest == slots_fmt_of(Tail(free_slots))
         IN  IF LongEnough(s, e) THEN <<fmt(s, e)>> \o rest ELSE rest

-----------------------------------------------------------------------------
(* services.py check_availability: one day *)

\* def day_range(offset) of services.py
svc_day_range(today, off) ==
    LET date == today + off
    IN  [start_day |-> replace_tzinfo(date * MinutesPerDay + OpenMinute, SvcLmtOffset),
         end_day   |-> replace_tzinfo(date * MinutesPerDay + CloseMinute, SvcLmtOffset),
         date      |-> date]

\* if offset == 0 and now > start_day: start = now else: start = start_day
svc_window_start(t_now, off, start_day) ==
    IF off = 0 /\ t_now.inst > start_day.inst THEN t_now ELSE start_day

\* an entry whose start or end cannot be parsed: fromisoformat raises
Unparseable == [start |-> [text |-> "none"], end |-> [text |-> "none"]]
parseable(str) == DOMAIN str = {"wall", "off"}

\* lines 174-193: parse, drop what does not overlap, clip
RECURSIVE busy_intervals_of(_, _, _)
busy_intervals_of(slots, start, end) ==
    IF slots = <<>> THEN <<>>
    ELSE LET rest == busy_intervals_of(Tail(slots), start, end)
         IN  IF ~parseable(Head(slots).start) \/ ~parseable(Head(slots).end) THEN rest
             ELSE LET s_dt == astimezone(fromisoformat(Head(slots).start), SvcTzOffset)
                      e_dt == astimezone(fromisoformat(Head(slots).end), SvcTzOffset)
                  IN  IF e_dt.inst <= start.inst THEN rest
                      ELSE IF s_dt.inst >= end.inst THEN rest
                      ELSE <<(<<dtmax(s_dt, start), dtmin(e_dt, end)>>)>> \o rest

\* list.sort(key=lambda x: x[0]): stable, ascending by start
RECURSIVE insert_sorted(_, _)
insert_sorted(x, sorted) ==
    IF sorted = <<>> THEN <<x>>
    ELSE IF x[1].inst < Head(sorted)[1].inst THEN <<x>> \o sorted
    ELSE <<Head(sorted)>> \o insert_sorted(x, Tail(sorted))

sort_unsorted(intervals) == intervals

RECURSIVE sort_by_start(_)
sort_by_start(intervals) ==
    IF intervals = <<>> THEN <<>>
    ELSE LET n == Len(intervals)
         IN  insert_sorted(intervals[n], sort_by_start(SubSeq(intervals, 1, n - 1)))

\* lines 197-206: the merging sweep
RECURSIVE merge_sweep(_, _)
merge_sweep(intervals, merged) ==
    IF intervals = <<>> THEN merged
    ELSE LET s == Head(intervals)[1]
             e == Head(intervals)[2]
             n == Len(merged)
         IN  IF merged = <<>>
             THEN merge_sweep(Tail(intervals), <<(<<s, e>>)>>)
             ELSE IF s.inst <= merged[n][2].inst
             THEN merge_sweep(Tail(intervals),
                              [merged EXCEPT ![n] = <<merged[n][1], dtmax(merged[n][2], e)>>])
             ELSE merge_sweep(Tail(intervals), Append(merged, <<s, e>>))

\* lines 174-206
merged_of(busy_slots, start, end) ==
    merge_sweep(sort_by_start(busy_intervals_of(busy_slots, start, end)), <<>>)

\* lines 208-215: gaps between the merged intervals
RECURSIVE svc_sweep(_, _, _)
svc_sweep(merged, current_time, free_slots) ==
    IF merged = <<>>
    THEN [current_time |-> current_time, free_slots |-> free_slots]
    ELSE LET s_busy == Head(merged)[1]
             e_busy == Head(merged)[2]
         IN  svc_sweep(Tail(merged), dtmax(current_time, e_busy),
                       IF current_time.inst < s_busy.inst
                       THEN Append(free_slots, <<current_time, s_busy>>)
                       ELSE free_slots)

svc_free_slots_of(start, end, merged) ==
    LET r == svc_sweep(merged, start, <<>>)
    IN  IF r.current_time.inst < end.inst
        THEN Append(r.free_slots, <<r.current_time, end>>)
        ELSE r.free_slots

\* lines 218-226: every gap is formatted, none is dropped
svc_fmt(s, e) ==
    [inicio_iso |-> isoformat(s), fin_iso |-> isoformat(e),
     inicio_hora |-> strftime_time(s), fin_hora |-> strftime_time(e)]

slots_formatted_of(free_slots) ==
    [i \in 1..Len(free_slots) |-> svc_fmt(free_slots[i][1], free_slots[i][2])]

-----------------------------------------------------------------------------
(* Inputs *)

\* wall-clock readings (minutes of the day) at which busy intervals start or end
Grid == {420, 480, 490, 540, 1020, 1070}
\* wall-clock readings of "now": 07:30, 08:30, 14:00, 17:30, 18:20
NowTimes == {450, 510, 840, 1050, 1100}

\* the provider answers in UTC ("...Z")
provider_iso(inst) == isoformat(DateTime(inst, 0))

BusyEntries(date, tz) ==
    { [start |-> provider_iso(date * MinutesPerDay + a - tz),
       end   |-> provider_iso(date * MinutesPerDay + b - tz)] : a \in Grid, b \in Grid }

SeqsUpTo(S, n) == UNION { [1..k -> S] : k \in 0..n }

-----------------------------------------------------------------------------
(* SpecDay: the body of one loop iteration, on every window and busy list *)

\* workers that call the tools against the same calendar
Procs == {"w1", "w2"}
NoCall == [kind |-> "none"]

BookIdle ==
    /\ sys_tz = 0 /\ events = <<>> /\ asked = <<>>
    /\ pc = [p \in Procs |-> "off"]
    /\ req = [p \in Procs |-> NoCall]
    /\ answer = [p \in Procs |-> <<>>]
    /\ inserts = [p \in Procs |-> 0]
    /\ calls = [p \in Procs |-> <<>>]
    /\ result = [p \in Procs |-> NoCall]

SheetIdle ==
    /\ ws_name = "none" /\ ws_rows = <<>> /\ clock = 0
    /\ sh_call = NoCall /\ sh_ret = NoCall /\ sh_writes = <<>> /\ sh_created = NoCall

HandleIdle ==
    /\ token_file = "none" /\ service = None /\ builds = 0 /\ attempts = 0
    /\ got = <<>>

StepIdle ==
    /\ cc_pc = [p \in Procs |-> "off"]
    /\ cc_call = [p \in Procs |-> NoCall]
    /\ cc_done = [p \in Procs |-> 0]
    /\ cc_ret = [p \in Procs |-> NoCall]

DayIdle ==
    /\ d_impl = "none" /\ d_start = DateTime(0, 0) /\ d_end = DateTime(0, 0)
    /\ d_busy = <<>> /\ d_free = <<>> /\ d_merged = <<>> /\ d_slots = <<>>

ScanIdle ==
    /\ now = DateTime(0, 0) /\ today_wd = 0 /\ tz_lmt = TzOffset
    /\ scan_pc = "off" /\ offset = 0 /\ dias_encontrados = 0
    /\ disponibilidad = <<>> /\ queries = <<>>
    /\ saturated = TRUE

InitDay == DayIdle /\ ScanIdle /\ BookIdle /\ SheetIdle /\ HandleIdle /\ StepIdle

\* calendar_service.py lines 177-221 for one offset
DayCalendarService ==
    \E w \in NowTimes, off \in {0, 1}, lmt \in LmtOffsets :
      LET r     == day_range(0, off, lmt)
          start == window_start(now_at(w, TzOffset), off, r.start_day)
      IN  /\ d_impl = "none"
          /\ start.inst < r.end_day.inst
          /\ \E busy \in SeqsUpTo(BusyEntries(off, TzOffset), MaxBusy) :
               LET free == free_slots_of(start, r.end_day, busy)
               IN  /\ d_impl' = "calendar_service"
                   /\ d_start' = start
                   /\ d_end' = r.end_day
                   /\ d_busy' = busy
                   /\ d_free' = free
                   /\ d_merged' = <<>>
                   /\ d_slots' = slots_fmt_of(free)
                   /\ UNCHANGED <<scan_vars, book_vars, sheet_vars, handle_vars, step_vars>>

\* services.py lines 141-226 for one offset
DayServices ==
    \E w \in NowTimes, off \in {0, 1} :
      LET r     == svc_day_range(0, off)
          start == svc_window_start(now_at(w, SvcTzOffset), off, r.start_day)
      IN  /\ d_impl = "none"
          /\ start.inst < r.end_day.inst
          /\ \E busy \in SeqsUpTo(BusyEntries(off, SvcTzOffset) \cup {Unparseable}, MaxBusy) :
               LET merged == merged_of(busy, start, r.end_day)
                   free   == svc_free_slots_of(start, r.end_day, merged)
               IN  /\ d_impl' = "services"
                   /\ d_start' = start
                   /\ d_end' = r.end_day
                   /\ d_busy' = busy
                   /\ d_free' = free
                   /\ d_merged' = merged
                   /\ d_slots' = slots_formatted_of(free)
                   /\ UNCHANGED <<scan_vars, book_vars, sheet_vars, handle_vars, step_vars>>

NextDay == DayCalendarService \/ DayServices

SpecDay == InitDay /\ [][NextDay]_vars

-----------------------------------------------------------------------------
(* Observations on one day *)

inst_of(str) == fromisoformat(str).inst

\* indices of the provider's entries that parse
Parsed == { i \in 1..Len(d_busy) :
              parseable(d_busy[i].start) /\ parseable(d_busy[i].end) }

\* Every interval of a day has its bounds among these instants, so an interval
\* is a union of cells [p, q) of consecutive points and holds a cell exactly
\* when it holds the cell's left bound p.
Points ==
    {d_start.inst, d_end.inst}
      \cup { inst_of(d_busy[i].start) : i \in Parsed }
      \cup { inst_of(d_busy[i].end) : i \in Parsed }

WindowCells == { t \in Points : d_start.inst <= t /\ t < d_end.inst }

InBusy(t) ==
    \E i \in Parsed : inst_of(d_busy[i].start) <= t /\ t < inst_of(d_busy[i].end)

InReported(t) ==
    \E j \in 1..Len(d_slots) :
        inst_of(d_slots[j].inicio_iso) <= t /\ t < inst_of(d_slots[j].fin_iso)

ShortGap(k) == (d_free[k][2].inst - d_free[k][1].inst) * 60 < MinSlotSeconds

InShortGap(t) ==
    \E k \in 1..Len(d_free) :
        ShortGap(k) /\ d_free[k][1].inst <= t /\ t < d_free[k][2].inst

BusySortedByStart ==
    \A i, j \in Parsed : i < j => inst_of(d_busy[i].start) <= inst_of(d_busy[j].start)

InMerged(t) ==
    \E i \in 1..Len(d_merged) : d_merged[i][1].inst <= t /\ t < d_merged[i][2].inst

-----------------------------------------------------------------------------
(* C3 *)

\* C3 as stated: the reported free slots of a day and the busy intervals tile
\* the window [open, close): every instant of the window is in exactly one of
\* the two.
C3_ExactTiling ==
    d_impl # "none" =>
        \A t \in WindowCells : InReported(t) # InBusy(t)

\* C3 amended: services.py tiles the window exactly.  CalendarService covers
\* every instant of the window by a reported slot, a busy interval or a gap
\* shorter than 15 minutes that the duration filter dropped; and when the busy
\* list is in ascending order of start, no instant is both in a reported slot
\* and in a busy interval.
C3_TilingUpToShortGaps ==
    /\ d_impl = "services" =>
           \A t \in WindowCells : InReported(t) # InBusy(t)
    /\ d_impl = "calendar_service" =>
           \A t \in WindowCells :
               /\ InReported(t) \/ InBusy(t) \/ InShortGap(t)
               /\ BusySortedByStart => ~(InReported(t) /\ InBusy(t))

\* a sorted busy list of two intervals that leaves a reported slot and a gap
\* of less than 15 minutes which is in no slot and in no busy interval
C3_Witness ==
    /\ d_impl = "calendar_service"
    /\ Len(d_busy) = 2
    /\ BusySortedByStart
    /\ Len(d_slots) >= 1
    /\ \E t \in WindowCells : InShortGap(t) /\ ~InReported(t) /\ ~InBusy(t)
    /\ \E t \in WindowCells : InBusy(t)

-----------------------------------------------------------------------------
(* C4 *)

\* C4: every slot of a day's slots_fmt lasts at least 15 minutes, and a
\* candidate gap shorter than 15 minutes (between two busy intervals or between
\* a window bound and a busy interval) yields no slot: the slots are exactly
\* the candidate gaps of at least 15 minutes.
C4_MinDuration ==
    d_impl = "calendar_service" =>
        /\ \A j \in 1..Len(d_slots) :
               inst_of(d_slots[j].fin_iso) - inst_of(d_slots[j].inicio_iso) >= 15
        /\ \A k \in 1..Len(d_free) :
               ShortGap(k) =>
                   ~\E j \in 1..Len(d_slots) :
                       /\ d_slots[j].inicio_iso = isoformat(d_free[k][1])
                       /\ d_slots[j].fin_iso = isoformat(d_free[k][2])
        /\ Len(d_slots) = Cardinality({ k \in 1..Len(d_free) : ~ShortGap(k) })

\* a 10-minute gap between two busy intervals, dropped, beside a reported slot
C4_Witness ==
    /\ d_impl = "calendar_service"
    /\ Len(d_busy) = 2
    /\ \E k \in 1..Len(d_free) :
           /\ ShortGap(k)
           /\ d_free[k][1].inst = inst_of(d_busy[1].end)
           /\ d_free[k][2].inst = inst_of(d_busy[2].start)
    /\ Len(d_slots) >= 1
    /\ Len(d_slots) < Len(d_free)

-----------------------------------------------------------------------------
(* C5 *)

\* C5: the merged list of services.py is sorted by start, its intervals are
\* pairwise disjoint, and its union is the union of the input intervals
\* restricted to the window.
C5_MergeCorrect ==
    d_impl = "services" =>
        /\ \A i, j \in 1..Len(d_merged) :
               i < j => d_merged[i][1].inst <= d_merged[j][1].inst
        /\ \A i, j \in 1..Len(d_merged) :
               i # j => ~\E t \in Points :
                           /\ d_merged[i][1].inst <= t /\ t < d_merged[i][2].inst
                           /\ d_merged[j][1].inst <= t /\ t < d_merged[j][2].inst
        /\ \A t \in Points :
               InMerged(t) <=> (InBusy(t) /\ d_start.inst <= t /\ t < d_end.inst)

\* two overlapping intervals, returned in descending order of start, merged
\* into one
C5_Witness ==
    /\ d_impl = "services"
    /\ Len(d_busy) = 2
    /\ Parsed = {1, 2}
    /\ inst_of(d_busy[1].start) > inst_of(d_busy[2].start)
    /\ inst_of(d_busy[1].start) < inst_of(d_busy[1].end)
    /\ inst_of(d_busy[2].start) < inst_of(d_busy[2].end)
    /\ Len(d_merged) = 1
    /\ d_merged[1][2].inst > d_merged[1][1].inst

-----------------------------------------------------------------------------
(* C21 *)

\* C21: whatever the order of the busy list, no instant of a day's window is
\* both in a reported free slot and in a busy interval returned for that day.
C21_NoOverlapAnyOrder ==
    d_impl = "calendar_service" =>
        \A t \in WindowCells : ~(InReported(t) /\ InBusy(t))

\* services.py, which sorts the list before its sweep, keeps C21
C21_ServicesNoOverlap ==
    d_impl = "services" =>
        \A t \in WindowCells : ~(InReported(t) /\ InBusy(t))

-----------------------------------------------------------------------------
(* C22 *)

\* an entry of the busy list that parses to an interval with end <= start
Degenerate(slot) ==
    /\ parseable(slot.start) /\ parseable(slot.end)
    /\ inst_of(slot.end) <= inst_of(slot.start)
NotDegenerate(slot) == ~Degenerate(slot)

\* C22: the slots reported for a day are those the same code reports for the
\* busy list without its entries of end <= start.
C22_DegenerateDiscarded ==
    LET kept == SelectSeq(d_busy, NotDegenerate)
    IN  /\ d_impl = "calendar_service" =>
               d_slots = slots_fmt_of(free_slots_of(d_start, d_end, kept))
        /\ d_impl = "services" =>
               d_slots = slots_formatted_of(
                             svc_free_slots_of(d_start, d_end,
                                               merged_of(kept, d_start, d_end)))

-----------------------------------------------------------------------------
(* SpecScan: CalendarService.check_availability, one invocation *)

WeekDays == 0..6

\* What the provider answers to a query for [start, end_day): nothing; one
\* interval over the whole range; one that leaves the first 10 minutes; two
\* intervals, the later first, reaching beyond both bounds of the range.
ScanAnswers(start, end_day) ==
    LET a == start.inst
        b == end_day.inst
        iv(s, e) == [start |-> provider_iso(s), end |-> provider_iso(e)]
    IN  { <<>>,
          <<iv(a, b)>>,
          <<iv(a + 10, b)>>,
          <<iv(a + 60, b + 60), iv(a - 60, a + 20)>> }

\* every instant of [start, end_day) is in an interval of the answer
covers(busy, start, end_day) ==
    LET pts == {start.inst}
                 \cup { inst_of(busy[i].start) : i \in 1..Len(busy) }
                 \cup { inst_of(busy[i].end) : i \in 1..Len(busy) }
    IN  \A t \in pts :
            (start.inst <= t /\ t < end_day.inst) =>
                \E i \in 1..Len(busy) :
                    inst_of(busy[i].start) <= t /\ t < inst_of(busy[i].end)

InitScan ==
    /\ DayIdle
    /\ now \in { now_at(w, TzOffset) : w \in NowTimes }
    /\ today_wd \in WeekDays
    /\ tz_lmt \in LmtOffsets
    /\ scan_pc = "loop"
    /\ offset = 0
    /\ dias_encontrados = 0
    /\ disponibilidad = <<>>
    /\ queries = <<>>
    /\ saturated = TRUE
    /\ BookIdle /\ SheetIdle /\ HandleIdle /\ StepIdle

\* while dias_encontrados < 3 and offset < 14
loop_guard(found, off) == found < DaysNeeded /\ off < MaxOffset

\* offset += 1 of the weekend branch (line 174)
weekend_next_offset_stuck(off) == off
weekend_next_offset(off) == off + 1

\* if slots_fmt: (line 223)
has_slots_always(slots_fmt) == TRUE
has_slots(slots_fmt) == slots_fmt # <<>>

\* dias_encontrados += 1 (line 225)
found_next_stuck(found) == found
found_next(found) == found + 1

ScanDay == day_range(date_of(now), offset, tz_lmt)
ScanStart == window_start(now, offset, ScanDay.start_day)
ScanLooping == scan_pc = "loop" /\ loop_guard(dias_encontrados, offset)

\* lines 171-175
ScanWeekend ==
    /\ ScanLooping
    /\ is_weekend(weekday_of(today_wd, offset))
    /\ offset' = weekend_next_offset(offset)
    /\ UNCHANGED <<now, today_wd, tz_lmt, scan_pc, dias_encontrados,
                   disponibilidad, queries, saturated, day_vars, book_vars, sheet_vars, handle_vars, step_vars>>

\* lines 177-182
ScanElapsed ==
    /\ ScanLooping
    /\ ~is_weekend(weekday_of(today_wd, offset))
    /\ ScanStart.inst >= ScanDay.end_day.inst
    /\ offset' = offset + 1
    /\ UNCHANGED <<now, today_wd, tz_lmt, scan_pc, dias_encontrados,
                   disponibilidad, queries, saturated, day_vars, book_vars, sheet_vars, handle_vars, step_vars>>

\* lines 184-227
ScanQueryDay ==
    /\ ScanLooping
    /\ ~is_weekend(weekday_of(today_wd, offset))
    /\ ScanStart.inst < ScanDay.end_day.inst
    /\ \E busy_slots \in ScanAnswers(ScanStart, ScanDay.end_day) :
         LET free_slots == free_slots_of(ScanStart, ScanDay.end_day, busy_slots)
             slots_fmt  == slots_fmt_of(free_slots)
             label      == strftime_date(today_wd, date_of(now), ScanDay.date)
         IN  /\ queries' = Append(queries,
                                  [timeMin |-> isoformat(ScanStart),
                                   timeMax |-> isoformat(ScanDay.end_day)])
             /\ saturated' = (saturated /\ covers(busy_slots, ScanStart, ScanDay.end_day))
             /\ IF has_slots(slots_fmt)
                THEN /\ disponibilidad' =
                            Append(disponibilidad,
                                   [dia |-> label, espacios_libres |-> slots_fmt])
                     /\ dias_encontrados' = found_next(dias_encontrados)
                ELSE UNCHANGED <<disponibilidad, dias_encontrados>>
    /\ offset' = offset + 1
    /\ UNCHANGED <<now, today_wd, tz_lmt, scan_pc, day_vars, book_vars, sheet_vars, handle_vars, step_vars>>

\* lines 184-194 when .execute() raises: nothing in check_availability (nor
\* in calendar_check_availability, mcp.py line 217) catches it, so the
\* invocation ends there
ScanQueryFails ==
    /\ ScanLooping
    /\ ~is_weekend(weekday_of(today_wd, offset))
    /\ ScanStart.inst < ScanDay.end_day.inst
    /\ queries' = Append(queries,
                         [timeMin |-> isoformat(ScanStart),
                          timeMax |-> isoformat(ScanDay.end_day)])
    /\ scan_pc' = "raised"
    /\ UNCHANGED <<now, today_wd, tz_lmt, offset, dias_encontrados,
                   disponibilidad, saturated, day_vars, book_vars, sheet_vars, handle_vars, step_vars>>

\* line 229: return disponibilidad
ScanReturn ==
    /\ scan_pc = "loop"
    /\ ~loop_guard(dias_encontrados, offset)
    /\ scan_pc' = "done"
    /\ UNCHANGED <<now, today_wd, tz_lmt, offset, dias_encontrados,
                   disponibilidad, queries, saturated, day_vars, book_vars, sheet_vars, handle_vars, step_vars>>

NextScan == ScanWeekend \/ ScanElapsed \/ ScanQueryDay \/ ScanQueryFails \/ ScanReturn

SpecScan == InitScan /\ [][NextScan]_vars

\* the loop is sequential code: an iteration that can run does run
SpecScanFair == SpecScan /\ WF_vars(NextScan)

-----------------------------------------------------------------------------
(* C6 *)

ReportWeekdays == { disponibilidad[i].dia.weekday : i \in 1..Len(disponibilidad) }

\* C6: no entry of the report is for a Saturday or a Sunday; an iteration on
\* a weekend date adds one to offset, issues no query and leaves the
\* found-days counter and the report alone; offset never passes 14, and at 14
\* the only step left is the return.
C6_WeekendSkip ==
    /\ [](\A wd \in ReportWeekdays : wd < 5)
    /\ [][(ScanLooping /\ weekday_of(today_wd, offset) \in {5, 6}) =>
              /\ offset' = offset + 1
              /\ queries' = queries
              /\ dias_encontrados' = dias_encontrados
              /\ disponibilidad' = disponibilidad]_vars
    /\ [](offset <= MaxOffset)
    /\ [][(scan_pc = "loop" /\ offset = MaxOffset) =>
              (scan_pc' = "done" /\ disponibilidad' = disponibilidad)]_vars

\* a scan started on a Friday that reported Friday, then Monday and Tuesday
C6_Witness ==
    /\ today_wd = 4
    /\ scan_pc = "done"
    /\ Len(disponibilidad) = 3
    /\ disponibilidad[1].dia = [weekday |-> 4, date |-> 0]
    /\ disponibilidad[2].dia = [weekday |-> 0, date |-> 3]
    /\ disponibilidad[3].dia = [weekday |-> 1, date |-> 4]
    /\ offset = 5
    /\ Len(queries) = 3

-----------------------------------------------------------------------------
(* C7 *)

NowWall == now.inst + TzOffset - date_of(now) * MinutesPerDay

\* today was a business day and its iteration is over
TodayScanned == scan_pc # "off" /\ offset >= 1 /\ today_wd < 5

TodaySlots ==
    UNION { { disponibilidad[i].espacios_libres[j] :
                j \in 1..Len(disponibilidad[i].espacios_libres) } :
            i \in { k \in 1..Len(disponibilidad) : disponibilidad[k].dia.date = date_of(now) } }

\* C7: when now is inside today's 08:00-17:00, every slot reported for today
\* starts at or after now, and today's query has timeMin = now.
C7_TodayClipped ==
    (TodayScanned /\ OpenMinute <= NowWall /\ NowWall < CloseMinute) =>
        /\ Len(queries) >= 1
        /\ inst_of(queries[1].timeMin) = now.inst
        /\ \A sl \in TodaySlots : inst_of(sl.inicio_iso) >= now.inst

\* what the code keeps of C7: no slot of today starts before now; and in a
\* zone whose tzinfo carries the zone's own offset all of C7 holds
C7_NoElapsedSlot ==
    /\ \A sl \in TodaySlots : inst_of(sl.inicio_iso) >= now.inst
    /\ tz_lmt = TzOffset => C7_TodayClipped

-----------------------------------------------------------------------------
(* C8 *)

\* C8: the scan ends (it returns, or a query's exception ends it); it examines
\* at most 14 offsets and issues at most 14 queries, at most one per offset;
\* when every queried window was fully busy the report it returns has fewer
\* than 3 entries.
C8_Terminates ==
    /\ <>(scan_pc \in {"done", "raised"})
    /\ [](offset <= MaxOffset /\ Len(queries) <= MaxOffset)
    /\ [](Len(queries) <= offset + (IF scan_pc = "raised" THEN 1 ELSE 0))
    /\ []((scan_pc = "done" /\ saturated) => Len(disponibilidad) < DaysNeeded)

\* a scan over 14 saturated days: ten queries, all answered fully busy
C8_Witness ==
    /\ scan_pc = "done"
    /\ saturated
    /\ offset = MaxOffset
    /\ Len(queries) = 10
    /\ disponibilidad = <<>>

-----------------------------------------------------------------------------
(* C9 *)

\* C9: in every state of the scan the report has at most 3 entries, as many
\* as the found-days counter says, in strictly ascending order of date.
C9_ReportShape ==
    /\ Len(disponibilidad) <= DaysNeeded
    /\ Len(disponibilidad) = dias_encontrados
    /\ \A i, j \in 1..Len(disponibilidad) :
           i < j => disponibilidad[i].dia.date < disponibilidad[j].dia.date

\* a returned report of three days, not consecutive
C9_Witness ==
    /\ scan_pc = "done"
    /\ Len(disponibilidad) = 3
    /\ dias_encontrados = 3
    /\ disponibilidad[3].dia.date > disponibilidad[1].dia.date + 2

-----------------------------------------------------------------------------
(* C23 *)

\* the iteration at hand is for a weekday whose window has elapsed
ElapsedDay ==
    /\ ScanLooping
    /\ ~is_weekend(weekday_of(today_wd, offset))
    /\ ScanStart.inst >= ScanDay.end_day.inst

\* C23: every entry of the report holds at least one slot; the iteration of a
\* weekday whose window has elapsed issues no query, appends nothing and
\* counts nothing; and a step that leaves the report as it was leaves the
\* found-days counter as it was, while a step that appends counts one day and
\* appends an entry with a slot.
C23_NoEmptyEntry ==
    /\ [](\A i \in 1..Len(disponibilidad) :
             Len(disponibilidad[i].espacios_libres) >= 1)
    /\ [][ElapsedDay =>
              /\ queries' = queries
              /\ disponibilidad' = disponibilidad
              /\ dias_encontrados' = dias_encontrados
              /\ offset' = offset + 1]_vars
    /\ [][IF disponibilidad' = disponibilidad
          THEN dias_encontrados' = dias_encontrados
          ELSE /\ dias_encontrados' = dias_encontrados + 1
               /\ Len(disponibilidad') = Len(disponibilidad) + 1
               /\ SubSeq(disponibilidad', 1, Len(disponibilidad)) = disponibilidad
               /\ disponibilidad'[Len(disponibilidad')].espacios_libres # <<>>]_vars

\* a scan called on a weekday after the window had elapsed: today brought no
\* query and no entry, a later day was queried and left out of the report for
\* having no slot of 15 minutes, and other days were reported
C23_Witness ==
    /\ scan_pc = "done"
    /\ today_wd < 5
    /\ NowWall > CloseMinute + 60
    /\ Len(queries) >= 1
    /\ inst_of(queries[1].timeMin) > now.inst
    /\ \A i \in 1..Len(disponibilidad) : disponibilidad[i].dia.date > date_of(now)
    /\ Len(disponibilidad) >= 1
    /\ Len(queries) > Len(disponibilidad)

-----------------------------------------------------------------------------
(* C27 *)

\* 08:00 and 17:00 of a date in TIMEZONE, as instants
OpenOf(date) == date * MinutesPerDay + OpenMinute - TzOffset
CloseOf(date) == date * MinutesPerDay + CloseMinute - TzOffset

\* C27: every slot (s, e) of the report has open <= s < e <= close, for the
\* 08:00-17:00 window of its day in TIMEZONE, open being now for today.
C27_SlotsInWindow ==
    \A i \in 1..Len(disponibilidad) :
        LET date == disponibilidad[i].dia.date
            open == IF date = date_of(now) /\ now.inst > OpenOf(date)
                    THEN now.inst ELSE OpenOf(date)
        IN  \A j \in 1..Len(disponibilidad[i].espacios_libres) :
                LET s == inst_of(disponibilidad[i].espacios_libres[j].inicio_iso)
                    e == inst_of(disponibilidad[i].espacios_libres[j].fin_iso)
                IN  open <= s /\ s < e /\ e <= CloseOf(date)

\* what the code keeps of C27: in a zone whose tzinfo carries the zone's own
\* offset the slots are inside the window
C27_SlotsInWindowOwnOffset ==
    tz_lmt = TzOffset => C27_SlotsInWindow

\* and in every zone the candidate gaps and the reported slots of a day are
\* inside the bounds the code computed for that day, start and end_day
C27_SlotsInComputedWindow ==
    d_impl # "none" =>
        /\ \A k \in 1..Len(d_free) :
               /\ d_start.inst <= d_free[k][1].inst
               /\ d_free[k][1].inst < d_free[k][2].inst
               /\ d_free[k][2].inst <= d_end.inst
        /\ \A j \in 1..Len(d_slots) :
               /\ d_start.inst <= inst_of(d_slots[j].inicio_iso)
               /\ inst_of(d_slots[j].inicio_iso) < inst_of(d_slots[j].fin_iso)
               /\ inst_of(d_slots[j].fin_iso) <= d_end.inst

-----------------------------------------------------------------------------
(* The tool's arguments *)

\* datetime.fromisoformat(str) of mcp.py: aware when the string carries an
\* offset, naive otherwise
fromisoformat_any(str) ==
    IF "off" \in DOMAIN str THEN fromisoformat(str) ELSE [naive |-> str.wall]

\* x.astimezone(tz): a naive datetime is read as the host's local time
astimezone_any(d, tz, host) ==
    IF "naive" \in DOMAIN d THEN DateTime(d.naive - host, tz) ELSE astimezone(d, tz)

\* lines 84-92: start_time and end_time brought to TIMEZONE
to_timezone(str, host) == astimezone_any(fromisoformat_any(str), TzOffset, host)

Summaries == {"demo", "call"}
\* (start, end) in minutes: 10:00-11:00, 10:30-10:45, 11:00-12:00, and a
\* request that ends before it starts, 11:00-10:00
Ranges == {<<600, 660>>, <<630, 645>>, <<660, 720>>, <<660, 600>>}
\* how the caller writes an instant: with offset +01:00, or with none
Forms == {"plus1", "naive"}
\* the host's local zone: not UTC, so that a datetime written without offset
\* differs from the instant it means
HostOffsets == {TzOffset}

written(inst, form, host) ==
    CASE form = "plus1" -> [wall |-> inst + 60, off |-> 60]
      [] form = "naive" -> [wall |-> inst + host]

\* the (summary, range) pairs the callers ask for
Asks ==
    { <<"demo", <<600, 660>>>>, <<"call", <<630, 645>>>>,
      <<"call", <<660, 720>>>>, <<"demo", <<660, 600>>>> }

Requests(host) ==
    { [summary    |-> a[1],
       start_time |-> written(a[2][1], f, host),
       end_time   |-> written(a[2][2], f, host),
       asked      |-> [summary |-> a[1], start |-> a[2][1], end |-> a[2][2]]] :
      a \in Asks \cap (Summaries \X Ranges), f \in Forms }

-----------------------------------------------------------------------------
(* The calendar provider *)

ProviderOffsets == {0, TzOffset}

\* freebusy().query(timeMin, timeMax): the events that overlap the range
ProviderBusy(evs, timeMin, timeMax) ==
    LET hit(ev) == /\ inst_of(ev.start.dateTime) < inst_of(timeMax)
                   /\ inst_of(ev.end.dateTime) > inst_of(timeMin)
        hits == SelectSeq(evs, hit)
    IN  [i \in 1..Len(hits) |->
            [start |-> provider_iso(inst_of(hits[i].start.dateTime)),
             end   |-> provider_iso(inst_of(hits[i].end.dateTime))]]

\* events().insert(body): the event is stored under a fresh id, whatever the
\* calendar holds
ProviderInsertExclusive(evs, body) ==
    IF ProviderBusy(evs, body.start.dateTime, body.end.dateTime) # <<>>
    THEN evs
    ELSE Append(evs, [id |-> Len(evs) + 1] @@ body)
ProviderInsert(evs, body) == Append(evs, [id |-> Len(evs) + 1] @@ body)

\* events().get(eventId): the stored event, its times written in offset o
ProviderGet(evs, id, o) ==
    LET ev == evs[id]
        re(str) == isoformat(DateTime(inst_of(str), o))
    IN  [ev EXCEPT !.start.dateTime = re(@), !.end.dateTime = re(@)]

-----------------------------------------------------------------------------
(* Spec: CalendarService.create_meet_event and get_event_details *)

\* if busy_slots:
has_conflict_many(busy_slots) == Len(busy_slots) > 1
has_conflict(busy_slots) == busy_slots # <<>>

\* lines 115-127
event_body(summary, start_time, end_time) ==
    [summary |-> summary,
     start   |-> [dateTime |-> isoformat(start_time), timeZone |-> "TIMEZONE"],
     end     |-> [dateTime |-> isoformat(end_time), timeZone |-> "TIMEZONE"]]

\* lines 242-245 and 255-256: parse, bring to TIMEZONE, write
details_time_raw(str) == str
details_time(str) == isoformat(astimezone(fromisoformat(str), TzOffset))

\* an outcome that is an exception on its way out
Raised(r) == "raised" \in DOMAIN r

\* the conferenceData the provider's response carries: none; one without
\* entryPoints (the conference is still being created); one whose entryPoints
\* is an empty list; one with a join link
EmptyDict == <<>>
MeetUri == <<"m">>
ConferenceResponses ==
    { EmptyDict,
      [conferenceData |-> EmptyDict],
      [conferenceData |-> [entryPoints |-> <<>>]],
      [conferenceData |-> [entryPoints |-> <<[uri |-> MeetUri]>>]] }

IndexError == "list index out of range"

\* lines 136-138 and 247-249:
\* event.get("conferenceData", {}).get("entryPoints", [{}])[0].get("uri")
\* A list without a first element makes [0] raise IndexError.
first_of(entryPoints) ==
    IF entryPoints = <<>> THEN [raised |-> IndexError] ELSE entryPoints[1]
meet_link_of(event) ==
    LET conferenceData == IF "conferenceData" \in DOMAIN event
                          THEN event.conferenceData ELSE EmptyDict
        entryPoints    == IF "entryPoints" \in DOMAIN conferenceData
                          THEN conferenceData.entryPoints ELSE <<EmptyDict>>
        first          == first_of(entryPoints)
    IN  IF Raised(first) THEN first
        ELSE [uri |-> IF "uri" \in DOMAIN first THEN first.uri ELSE None]

Checked == { q \in Procs : pc[q] = "checked" }

Init ==
    /\ DayIdle /\ ScanIdle /\ SheetIdle /\ HandleIdle /\ StepIdle
    /\ sys_tz \in HostOffsets
    /\ events = <<>>
    /\ asked = <<>>
    /\ pc = [p \in Procs |-> "idle"]
    /\ req = [p \in Procs |-> NoCall]
    /\ answer = [p \in Procs |-> <<>>]
    /\ inserts = [p \in Procs |-> 0]
    /\ calls = [p \in Procs |-> <<>>]
    /\ result = [p \in Procs |-> NoCall]

\* .execute() of a provider call either returns or raises (HttpError, a
\* transport error).  create_meet_event has no try: the exception leaves it.
ProviderErrors == {"HttpError 503"}
NotFoundError == "HttpError 404"

\* where the invocation stands after an exception left create_meet_event
pc_after_raise_retry(at) == at
pc_after_raise(at) == "idle"

\* an entry of the call log: the operation and whether it returned; an insert
\* also with the instants of the event it was given
Call(op, ok) == [op |-> op, ok |-> ok]
Ranged(c, start_time, end_time) ==
    c @@ [start |-> start_time.inst, end |-> end_time.inst]

\* lines 98-102: the body of the free/busy query
query_body_at_start(start_time, end_time) ==
    [timeMin |-> isoformat(start_time), timeMax |-> isoformat(start_time)]
query_body(start_time, end_time) ==
    [timeMin |-> isoformat(start_time), timeMax |-> isoformat(end_time)]

\* lines 84-92: the arguments with start_time and end_time in TIMEZONE
normalised(r, host) ==
    [r EXCEPT !.start_time = to_timezone(@, host),
              !.end_time = to_timezone(@, host)]

\* create_meet_event, lines 80-112: arguments, free/busy query, rejection
CreateCheck(p) ==
    /\ pc[p] = "idle"
    /\ \E r \in { normalised(a, sys_tz) : a \in Requests(sys_tz) } :
         LET start_time == r.start_time
             end_time   == r.end_time
             body       == query_body(start_time, end_time)
             busy_slots == ProviderBusy(events, body.timeMin, body.timeMax)
         IN  /\ has_conflict(busy_slots) \/ Len(events) + Cardinality(Checked) < MaxEvents
             /\ answer' = [answer EXCEPT ![p] = busy_slots]
             /\ inserts' = [inserts EXCEPT ![p] = 0]
             /\ calls' = [calls EXCEPT ![p] = <<Call("freebusy", TRUE)>>]
             /\ IF has_conflict(busy_slots)
                THEN /\ result' = [result EXCEPT ![p] =
                                     [success |-> FALSE,
                                      error |-> "Horario no disponible",
                                      busy_slots |-> busy_slots]]
                     /\ req' = [req EXCEPT ![p] = NoCall]
                     /\ pc' = pc
                ELSE /\ result' = [result EXCEPT ![p] = NoCall]
                     /\ req' = [req EXCEPT ![p] =
                                  [summary |-> r.summary, start_time |-> start_time,
                                   end_time |-> end_time,
                                   asked |-> r.asked @@ [seen |-> Len(events)]]]
                     /\ pc' = [pc EXCEPT ![p] = "checked"]
    /\ UNCHANGED <<sys_tz, events, asked, day_vars, scan_vars, sheet_vars, handle_vars, step_vars>>

\* create_meet_event, lines 95-105, when the free/busy query raises
CreateCheckFails(p) ==
    /\ pc[p] = "idle"
    /\ \E e \in ProviderErrors :
         result' = [result EXCEPT ![p] = [raised |-> e]]
    /\ calls' = [calls EXCEPT ![p] = <<Call("freebusy", FALSE)>>]
    /\ answer' = [answer EXCEPT ![p] = <<>>]
    /\ inserts' = [inserts EXCEPT ![p] = 0]
    /\ pc' = [pc EXCEPT ![p] = pc_after_raise(pc[p])]
    /\ UNCHANGED <<sys_tz, events, asked, req, day_vars, scan_vars, sheet_vars, handle_vars, step_vars>>

\* lines 135-149 are straight-line code: after the insert the invocation
\* returns (or an exception leaves it)
pc_after_insert_again(at) == at
pc_after_insert(at) == "idle"

\* lines 135-149: the returned dict, or the exception of the projection
created_outcome(event) ==
    LET meet_link == meet_link_of(event)
    IN  IF Raised(meet_link) THEN meet_link
        ELSE [success |-> TRUE, event_id |-> event.id,
              meet_link |-> meet_link.uri, summary |-> event.summary]

\* create_meet_event, lines 114-149: the insert and what follows it.  The
\* response is the stored event with the conferenceData the provider gives it.
CreateInsert(p) ==
    /\ pc[p] = "checked"
    /\ LET body   == event_body(req[p].summary, req[p].start_time, req[p].end_time)
           stored == ProviderInsert(events, body)
       IN  /\ events' = stored
           /\ asked' = IF Len(stored) > Len(events) THEN Append(asked, req[p].asked) ELSE asked
           /\ inserts' = [inserts EXCEPT ![p] = @ + 1]
           /\ calls' = [calls EXCEPT ![p] =
                           Append(@, Ranged(Call("insert", TRUE),
                                            req[p].start_time, req[p].end_time))]
           /\ \E outcome \in { created_outcome(stored[Len(stored)] @@ conference) :
                                 conference \in ConferenceResponses } :
                 result' = [result EXCEPT ![p] = outcome]
    /\ pc' = [pc EXCEPT ![p] = pc_after_insert(pc[p])]
    /\ req' = [req EXCEPT ![p] = IF pc'[p] = "idle" THEN NoCall ELSE @]
    /\ UNCHANGED <<sys_tz, answer, day_vars, scan_vars, sheet_vars, handle_vars, step_vars>>

\* create_meet_event, lines 129-133, when the insert raises: nothing is
\* stored and the exception leaves the call
CreateInsertFails(p) ==
    /\ pc[p] = "checked"
    /\ \E e \in ProviderErrors :
         result' = [result EXCEPT ![p] = [raised |-> e]]
    /\ inserts' = [inserts EXCEPT ![p] = @ + 1]
    /\ calls' = [calls EXCEPT ![p] =
                    Append(@, Ranged(Call("insert", FALSE),
                                     req[p].start_time, req[p].end_time))]
    /\ pc' = [pc EXCEPT ![p] = pc_after_raise(pc[p])]
    /\ req' = [req EXCEPT ![p] = IF pc'[p] = "idle" THEN NoCall ELSE @]
    /\ UNCHANGED <<sys_tz, events, asked, answer, day_vars, scan_vars, sheet_vars, handle_vars, step_vars>>

\* lines 240-262: the returned dict; an exception of the projection is
\* caught by the except clause like any other
details_outcome(event) ==
    LET meet_link == meet_link_of(event)
    IN  IF Raised(meet_link)
        THEN [success |-> FALSE, error |-> meet_link.raised]
        ELSE [event_id  |-> event.id,
              summary   |-> event.summary,
              start     |-> details_time(event.start.dateTime),
              end       |-> details_time(event.end.dateTime),
              meet_link |-> meet_link.uri]

\* get_event_details, lines 235-262, when the get returns: the stored event,
\* its times in an offset of the provider's choice, with the conferenceData
\* the provider gives it
GetDetails(p) ==
    /\ pc[p] = "idle"
    /\ \E id \in 1..Len(events) :
         /\ \E outcome \in { details_outcome(ProviderGet(events, id, o) @@ conference) :
                               o \in ProviderOffsets,
                               conference \in ConferenceResponses } :
               result' = [result EXCEPT ![p] = outcome]
         /\ calls' = [calls EXCEPT ![p] = <<Call("get", TRUE) @@ [eventId |-> id]>>]
    /\ answer' = [answer EXCEPT ![p] = <<>>]
    /\ inserts' = [inserts EXCEPT ![p] = 0]
    /\ UNCHANGED <<sys_tz, events, asked, pc, req, day_vars, scan_vars, sheet_vars, handle_vars, step_vars>>

\* get_event_details, lines 236-239 and 261-262: the get raises (the provider
\* knows no event of that id, or fails otherwise) and the except clause
\* returns the exception's text
GetDetailsFails(p) ==
    /\ pc[p] = "idle"
    /\ \E id \in 1..(MaxEvents + 1) :
         \E e \in (IF id > Len(events) THEN {NotFoundError} ELSE {}) \cup ProviderErrors :
             /\ result' = [result EXCEPT ![p] = [success |-> FALSE, error |-> e]]
             /\ calls' = [calls EXCEPT ![p] = <<Call("get", FALSE) @@ [eventId |-> id]>>]
    /\ answer' = [answer EXCEPT ![p] = <<>>]
    /\ inserts' = [inserts EXCEPT ![p] = 0]
    /\ UNCHANGED <<sys_tz, events, asked, pc, req, day_vars, scan_vars, sheet_vars, handle_vars, step_vars>>

\* mcp.py: every calendar tool returns {"success": True, "data": result} and
\* has no try, so an exception of the service leaves the tool as it is
tool_outcome(r) ==
    IF Raised(r) THEN r ELSE [success |-> TRUE, data |-> r]

Next ==
    \E p \in Procs :
        \/ CreateCheck(p) \/ CreateCheckFails(p)
        \/ CreateInsert(p) \/ CreateInsertFails(p)
        \/ GetDetails(p) \/ GetDetailsFails(p)

Spec == Init /\ [][Next]_vars

\* Invocations executed one at a time: a worker takes a step only while no
\* other worker is between its query and its insert.
OneAtATime(p) == \A q \in Procs \ {p} : pc[q] = "idle"
SeqCreateCheck(p) == OneAtATime(p) /\ CreateCheck(p)
SeqCreateCheckFails(p) == OneAtATime(p) /\ CreateCheckFails(p)
SeqCreateInsert(p) == OneAtATime(p) /\ CreateInsert(p)
SeqCreateInsertFails(p) == OneAtATime(p) /\ CreateInsertFails(p)
SeqGetDetails(p) == OneAtATime(p) /\ GetDetails(p)
SeqGetDetailsFails(p) == OneAtATime(p) /\ GetDetailsFails(p)

NextSeq ==
    \E p \in Procs :
        \/ SeqCreateCheck(p) \/ SeqCreateCheckFails(p)
        \/ SeqCreateInsert(p) \/ SeqCreateInsertFails(p)
        \/ SeqGetDetails(p) \/ SeqGetDetailsFails(p)

SpecSeq == Init /\ [][NextSeq]_vars

\* A server process serving any of the three calendar tools: the behaviours
\* of Spec and those of SpecScan.
InitTools == Init \/ InitScan
NextTools == Next \/ NextScan
SpecTools == InitTools /\ [][NextTools]_vars

-----------------------------------------------------------------------------
(* C1 *)

Rejected(r) == "busy_slots" \in DOMAIN r
Booked(r) == "event_id" \in DOMAIN r /\ "success" \in DOMAIN r
Details(r) == "start" \in DOMAIN r

\* C1: when the free/busy query of a create_meet_event invocation answers
\* with at least one busy interval, the invocation has returned the rejected
\* outcome with exactly those intervals and has issued no insert; the step
\* that receives such an answer leaves the calendar as it was.
C1_ConflictRejects ==
    /\ [](\A p \in Procs :
             answer[p] # <<>> =>
                 /\ pc[p] = "idle"
                 /\ Rejected(result[p])
                 /\ result[p].success = FALSE
                 /\ result[p].busy_slots = answer[p]
                 /\ inserts[p] = 0)
    /\ [][\A p \in Procs :
             (answer'[p] # <<>> /\ result'[p] # result[p]) => events' = events]_vars

\* the request 10:00-11:00 rejected for the busy interval 10:30-10:45 alone
C1_Witness ==
    \E p \in Procs :
        /\ Rejected(result[p])
        /\ Len(answer[p]) = 1
        /\ inst_of(answer[p][1].start) = 630
        /\ inst_of(answer[p][1].end) = 645
        /\ Len(events) = 1
        /\ inserts[p] = 0
        /\ pc[p] = "idle"

-----------------------------------------------------------------------------
(* C2 *)

Overlap(a, b) == a.start < b.end /\ b.start < a.end

\* C2: nothing stands between a passed check and the insert.  A worker whose
\* query came back empty can always insert, and when the insert returns the
\* calendar has gained its event and it returns the booked outcome, whatever
\* other workers have inserted since its query.
C2_CheckThenActRace ==
    /\ [](\A p \in Procs : pc[p] = "checked" => ENABLED CreateInsert(p))
    /\ [][\A p \in Procs :
             (pc[p] = "checked" /\ pc'[p] = "idle" /\ ~Raised(result'[p])) =>
                 /\ Booked(result'[p])
                 /\ result'[p].success = TRUE
                 /\ Len(events') = Len(events) + 1
                 /\ result'[p].event_id = Len(events')
                 /\ inst_of(events'[Len(events')].start.dateTime) = req[p].asked.start
                 /\ inst_of(events'[Len(events')].end.dateTime) = req[p].asked.end]_vars

\* both workers queried an empty calendar, both returned booked, and the
\* calendar holds their two overlapping events
C2_Witness ==
    /\ Len(events) = 2
    /\ asked[1].seen = 0
    /\ asked[2].seen = 0
    /\ Overlap(asked[1], asked[2])
    /\ inst_of(events[1].start.dateTime) < inst_of(events[2].end.dateTime)
    /\ inst_of(events[2].start.dateTime) < inst_of(events[1].end.dateTime)
    /\ \A p \in Procs : Booked(result[p]) /\ pc[p] = "idle"
    /\ { result[p].event_id : p \in Procs } = {1, 2}

-----------------------------------------------------------------------------
(* C10 *)

\* C10: the booked outcome carries the summary asked for; what
\* get_event_details returns for a created event has that summary, and start
\* and end are the instants asked for, written in TIMEZONE.
C10_RoundTrip ==
    \A p \in Procs :
        /\ Booked(result[p]) =>
               result[p].summary = asked[result[p].event_id].summary
        /\ Details(result[p]) =>
               LET a == asked[result[p].event_id]
               IN  /\ result[p].summary = a.summary
                   /\ inst_of(result[p].start) = a.start
                   /\ inst_of(result[p].end) = a.end
                   /\ result[p].start.off = TzOffset
                   /\ result[p].end.off = TzOffset
                   /\ result[p].start.wall = a.start + TzOffset
                   /\ result[p].end.wall = a.end + TzOffset

\* one worker booked an event written without offset on a host that is not
\* in UTC; the other read it back
C10_Witness ==
    /\ sys_tz # 0
    /\ \E p, q \in Procs :
        /\ Booked(result[p])
        /\ Details(result[q])
        /\ result[q].event_id = result[p].event_id
        /\ result[q].summary = result[p].summary
        /\ inst_of(result[q].start) = asked[result[p].event_id].start

-----------------------------------------------------------------------------
(* C11 *)

\* the last invocation of worker p made a provider call that raised
FailedCall(p) == calls[p] # <<>> /\ ~calls[p][Len(calls[p])].ok
CreateFailed(p) == FailedCall(p) /\ calls[p][1].op = "freebusy"
GetFailed(p) == FailedCall(p) /\ calls[p][1].op = "get"

\* C11: a provider failure in create_meet_event or in check_availability
\* reaches the tool caller as a returned failure outcome: not an exception
\* that left the tool, not success = true, and neither booked nor rejected.
C11_TypedFailure ==
    /\ \A p \in Procs :
           CreateFailed(p) =>
               LET out == tool_outcome(result[p])
               IN  /\ ~Raised(out)
                   /\ out.success = FALSE
                   /\ ~Booked(out) /\ ~Rejected(out)
    /\ scan_pc # "raised"

\* what the code does instead: the exception leaves create_meet_event and the
\* tool, the calendar keeps the events it had, and nothing is returned
C11_FailureEscapes ==
    \A p \in Procs :
        CreateFailed(p) => Raised(tool_outcome(result[p])) /\ pc[p] = "idle"

-----------------------------------------------------------------------------
(* C12 *)

\* C12: after get_event_details failed, the tool caller is not told success;
\* and the outcome for an id the provider does not know differs from the
\* outcome of any other provider failure.
C12_NotFoundDistinct ==
    /\ \A p \in Procs :
           GetFailed(p) => tool_outcome(result[p]).success = FALSE
    /\ \A p, q \in Procs :
           (GetFailed(p) /\ GetFailed(q)
              /\ result[p].error = NotFoundError /\ result[q].error # NotFoundError)
           => tool_outcome(result[p]) # tool_outcome(result[q])

-----------------------------------------------------------------------------
(* C13 *)

\* C13: no insert is issued, and no event is stored or reported booked, for
\* a request whose end is at or before its start.
C13_InputError ==
    /\ \A p \in Procs : \A i \in 1..Len(calls[p]) :
           calls[p][i].op = "insert" => calls[p][i].start < calls[p][i].end
    /\ \A i \in 1..Len(asked) : asked[i].start < asked[i].end
    /\ \A p \in Procs :
           Booked(result[p]) =>
               inst_of(events[result[p].event_id].start.dateTime)
                   < inst_of(events[result[p].event_id].end.dateTime)

-----------------------------------------------------------------------------
(* C14 *)

CallsOf(p, op) == { i \in 1..Len(calls[p]) : calls[p][i].op = op }

\* C14: an invocation makes at most one free/busy query and one insert, or
\* one get; every call before its last one returned, and after a call that
\* raised the invocation is over.  The scan makes at most one query per day
\* window, and after a query that raised it makes no other.
C14_AtMostOnce ==
    /\ [](\A p \in Procs :
             /\ Cardinality(CallsOf(p, "freebusy")) <= 1
             /\ Cardinality(CallsOf(p, "insert")) <= 1
             /\ Cardinality(CallsOf(p, "get")) <= 1
             /\ CallsOf(p, "get") # {} => Len(calls[p]) = 1
             /\ \A i \in 1..(Len(calls[p]) - 1) : calls[p][i].ok
             /\ FailedCall(p) => pc[p] = "idle")
    /\ [](\A i, j \in 1..Len(queries) :
             i < j => inst_of(queries[i].timeMax) < inst_of(queries[j].timeMax))
    /\ [][scan_pc = "raised" => queries' = queries]_vars
    /\ [][\A p \in Procs :
             (FailedCall(p) /\ calls'[p] # calls[p]) =>
                 (Len(calls'[p]) = 1 /\ calls'[p][1].op \in {"freebusy", "get"})]_vars

\* a create_meet_event whose query returned and whose insert raised, next to
\* a get_event_details whose get raised
C14_Witness ==
    \E p, q \in Procs :
        /\ Len(calls[p]) = 2
        /\ calls[p][1] = [op |-> "freebusy", ok |-> TRUE]
        /\ calls[p][2].op = "insert" /\ ~calls[p][2].ok
        /\ Raised(result[p])
        /\ pc[p] = "idle"
        /\ GetFailed(q)
        /\ events = <<>>

-----------------------------------------------------------------------------
(* C24 *)

\* the last provider call of worker p's last invocation, when it returned
Returned(p, op) ==
    /\ calls[p] # <<>>
    /\ calls[p][Len(calls[p])].op = op
    /\ calls[p][Len(calls[p])].ok

\* C24: whatever conferenceData the response carries, an invocation whose
\* insert returned has returned the booked outcome, and one whose get
\* returned has returned the event's details; meet_link is the join link or
\* null.
C24_NoLinkIsNull ==
    \A p \in Procs :
        /\ (Returned(p, "insert") /\ pc[p] = "idle") =>
               /\ Booked(result[p])
               /\ result[p].meet_link \in {None, MeetUri}
        /\ Returned(p, "get") =>
               /\ Details(result[p])
               /\ result[p].meet_link \in {None, MeetUri}

-----------------------------------------------------------------------------
(* C26 *)

\* the range [start, end) of the i-th event of the calendar
EventRange(i) ==
    [start |-> inst_of(events[i].start.dateTime),
     end   |-> inst_of(events[i].end.dateTime)]

\* C26: when invocations run one at a time, no two events of the calendar
\* have overlapping ranges, and each was created by an invocation whose query
\* saw every event inserted before it.
C26_NoOverlapSequential ==
    /\ \A i, j \in 1..Len(events) :
           i # j => ~Overlap(EventRange(i), EventRange(j))
    /\ \A i \in 1..Len(events) : asked[i].seen = i - 1

\* 10:00-11:00 and then 11:00-12:00 were booked, and a request for
\* 10:30-10:45 was rejected for the first of them
C26_Witness ==
    /\ Len(events) = 2
    /\ EventRange(1) = [start |-> 600, end |-> 660]
    /\ EventRange(2) = [start |-> 660, end |-> 720]
    /\ \E p \in Procs :
           /\ Rejected(result[p])
           /\ Len(answer[p]) = 1
           /\ inst_of(answer[p][1].start) = 600

-----------------------------------------------------------------------------
(* C30 *)

\* the steps of worker p: of a get_event_details, and of any invocation
GetStep(p) == calls'[p] # calls[p] /\ calls'[p][1].op = "get"
ScanStep == <<offset, scan_pc, queries, disponibilidad>>' #
                <<offset, scan_pc, queries, disponibilidad>>

\* C30: a step of get_event_details or of check_availability issues no insert
\* and leaves the calendar's events as they were; the calendar changes only
\* by the insert of a create_meet_event, which appends one event, and an
\* invocation issues at most one insert.
C30_Frame ==
    /\ [][\A p \in Procs :
             GetStep(p) =>
                 /\ events' = events
                 /\ inserts'[p] = 0
                 /\ CallsOf(p, "insert")' = {}]_vars
    /\ [][ScanStep => (events' = events /\ inserts' = inserts /\ calls' = calls)]_vars
    /\ [](\A p \in Procs : inserts[p] <= 1 /\ Cardinality(CallsOf(p, "insert")) = inserts[p])
    /\ [][events' # events =>
              /\ Len(events') = Len(events) + 1
              /\ SubSeq(events', 1, Len(events)) = events
              /\ \E p \in Procs :
                     /\ pc[p] = "checked"
                     /\ inserts'[p] = inserts[p] + 1
                     /\ \A q \in Procs \ {p} : inserts'[q] = inserts[q]]_vars

\* one worker has read the details of an event of a calendar of two events,
\* each inserted by its own invocation, the second of them the other worker's
C30_Witness ==
    \E p, q \in Procs :
        /\ Len(events) = 2
        /\ Details(result[p]) /\ inserts[p] = 0
        /\ calls[p] = <<Call("get", TRUE) @@ [eventId |-> 1]>>
        /\ Booked(result[q]) /\ result[q].event_id = 2 /\ inserts[q] = 1

-----------------------------------------------------------------------------
(* Strings.  A cell of a worksheet and a string argument are sequences of   *)
(* characters, so that what the code does to the characters is computed.    *)

\* str(v), bool(v), (v or "")
str(v) == IF v = None THEN <<"N", "o", "n", "e">> ELSE v
truthy(v) == v # None /\ v # <<>>
or_empty(v) == IF truthy(v) THEN v ELSE <<>>

isdigit(c) == c \in {"0", "1", "2", "3", "4", "5", "6", "7", "8", "9"}
\* "".join(filter(str.isdigit, s))
digits_of(s) == SelectSeq(s, isdigit)

\* str.lower()
lower_char(c) ==
    CASE c = "A" -> "a" [] c = "J" -> "j" [] c = "K" -> "k"
      [] c = "P" -> "p" [] c = "Q" -> "q" [] c = "R" -> "r"
      [] OTHER -> c
lower(s) == [i \in 1..Len(s) |-> lower_char(s[i])]

\* int(s) succeeds: an optional sign and at least one digit (the strings of
\* the model hold no blank, "_" or ".")
is_int_literal(s) ==
    LET body == IF s # <<>> /\ s[1] \in {"+", "-"} THEN Tail(s) ELSE s
    IN  body # <<>> /\ \A i \in 1..Len(body) : isdigit(body[i])

RECURSIVE strip_zeros(_)
strip_zeros(s) == IF Len(s) > 1 /\ s[1] = "0" THEN strip_zeros(Tail(s)) ELSE s

\* str(int(s))
int_str(s) ==
    LET body == IF s[1] \in {"+", "-"} THEN Tail(s) ELSE s
        mag  == strip_zeros(body)
    IN  IF s[1] = "-" /\ mag # <<"0">> THEN <<"-">> \o mag ELSE mag

\* gspread's numericise, which get_all_records applies to every cell: a cell
\* that reads as an integer comes back as that integer (written here as the
\* code's str() of it)
numericise(s) == IF is_int_literal(s) THEN int_str(s) ELSE s

-----------------------------------------------------------------------------
(* The worksheets *)

\* most data rows a worksheet holds
MaxRows == 2
\* last second of the wall clock
MaxClock == 1

\* header rows: the columns in the order the services write them
LeadColumns ==
    <<"Id", "Nombre", "Telefono", "Correo", "Tipo", "Estado", "Nota", "Usuario",
      "Canal", "Fecha Creacion", "Fecha Conversion", "Thread_Id">>
ProjectColumns ==
    <<"Id", "Nombre", "Descripcion", "Servicio", "Estado", "Nota",
      "Fecha_Inicio", "Fecha_Fin", "Id_Cliente">>
MeetingColumns ==
    <<"Id", "Asunto", "Detalles", "Fecha Inicio", "Meet_Link", "Calendar_Link",
      "Estado", "Fecha Creada", "Id Cliente">>

ColumnsOf(name) ==
    CASE name = "Lead" -> LeadColumns
      [] name = "Projects" -> ProjectColumns
      [] name = "Meetings" -> MeetingColumns

ColumnSet(cols) == { cols[i] : i \in 1..Len(cols) }
BlankRow(cols) == [c \in ColumnSet(cols) |-> <<>>]

\* col_map.get(key): the column's number, or None (0)
col_map(cols, key) ==
    IF key \in ColumnSet(cols) THEN CHOOSE i \in 1..Len(cols) : cols[i] = key ELSE 0

\* worksheet.get_all_records(): one dict per data row, every cell numericised
get_all_records(rows) ==
    [i \in 1..Len(rows) |-> [c \in DOMAIN rows[i] |-> numericise(rows[i][c])]]

\* worksheet.update_cell(row, col, value); a row right below the last one is
\* a new row
update_cell(rows, cols, row, col, value) ==
    LET base == IF row - 1 > Len(rows) THEN Append(rows, BlankRow(cols)) ELSE rows
    IN  [base EXCEPT ![row - 1][cols[col]] = value]

\* update_cell(row, k, values[k]) for k = from .. Len(values), in order
RECURSIVE write_cells(_, _, _, _, _)
write_cells(rows, cols, row, values, from) ==
    IF from > Len(values) THEN rows
    ELSE write_cells(update_cell(rows, cols, row, from, values[from]),
                     cols, row, values, from + 1)

cell_writes(row, values) ==
    [k \in 1..Len(values) |-> [row |-> row, col |-> k, value |-> values[k]]]

\* datetime.now(tz).strftime("%Y-%m-%d %H:%M:%S") and strftime('%Y%m%d%H%M%S')
DigitChar == <<"0", "1", "2", "3", "4", "5", "6", "7", "8", "9">>
strftime_stamp(t) == <<"t", DigitChar[t + 1]>>
strftime_compact(t) == <<DigitChar[t + 1]>>

-----------------------------------------------------------------------------
(* CRMService (crm_service.py), on the worksheet "Lead" *)

\* lines 36-41: the first row whose Id is the identifier, or whose phone has
\* the identifier's digits
RECURSIVE resolve_scan(_, _, _)
resolve_scan(all_records, ident, i) ==
    IF i > Len(all_records) THEN None
    ELSE LET row == all_records[i]
         IN  IF str(row["Id"]) = str(ident) THEN row["Id"]
             ELSE IF digits_of(str(row["Telefono"])) = digits_of(str(ident))
                  THEN row["Id"]
                  ELSE resolve_scan(all_records, ident, i + 1)

\* lines 23-41
resolve_client_id(rows, client_id_or_phone) ==
    IF ~truthy(client_id_or_phone) THEN None
    ELSE resolve_scan(get_all_records(rows), client_id_or_phone, 1)

\* lines 75-85
matched_by(row, telefono, correo, usuario) ==
    IF truthy(telefono) /\ digits_of(str(row["Telefono"])) = digits_of(str(telefono))
    THEN "telefono"
    ELSE IF truthy(correo) /\ lower(str(row["Correo"])) = lower(str(correo))
         THEN "correo"
         ELSE IF truthy(usuario) /\ str(row["Usuario"]) = str(usuario)
              THEN "usuario"
              ELSE "none"

\* lines 74-105
RECURSIVE verify_scan(_, _, _, _, _)
verify_scan(all_records, telefono, correo, usuario, i) ==
    IF i > Len(all_records) THEN [exists |-> FALSE, client_id |-> None]
    ELSE LET row == all_records[i]
             by  == matched_by(row, telefono, correo, usuario)
         IN  IF by # "none"
             THEN [exists |-> TRUE, client_id |-> row["Id"],
                   nombre |-> row["Nombre"], telefono |-> row["Telefono"],
                   correo |-> row["Correo"], tipo |-> row["Tipo"],
                   estado |-> row["Estado"], canal |-> row["Canal"],
                   nota |-> row["Nota"], usuario |-> row["Usuario"],
                   fecha_creacion |-> row["Fecha Creacion"],
                   fecha_conversion |-> row["Fecha Conversion"],
                   thread_id |-> row["Thread_Id"], matched_by |-> by]
             ELSE verify_scan(all_records, telefono, correo, usuario, i + 1)

\* lines 63-105
verify_client(rows, telefono, correo, usuario) ==
    IF ~truthy(telefono) /\ ~truthy(correo) /\ ~truthy(usuario)
    THEN [error |-> "Debe proporcionar al menos un identificador"]
    ELSE verify_scan(get_all_records(rows), telefono, correo, usuario, 1)

\* lines 155-166: the twelve values, in column order
client_cells(client_id, a, fecha_actual) ==
    <<client_id, a.nombre, or_empty(a.telefono), or_empty(a.correo),
      <<"L", "e", "a", "d">>, <<"N", "u", "e", "v", "o">>,
      or_empty(a.nota), or_empty(a.usuario), a.canal, fecha_actual,
      <<>>, or_empty(a.thread_id)>>

\* lines 139-174; client_id is what shortuuid.ShortUUID().random gave
create_client(rows, a, client_id, t) ==
    IF ~truthy(a.nombre) \/ ~truthy(a.canal)
    THEN [rows |-> rows, writes |-> <<>>,
          ret |-> [success |-> FALSE,
                   error |-> "Los campos 'nombre' y 'canal' son requeridos"]]
    ELSE LET all_records == get_all_records(rows)
             next_row    == Len(all_records) + 2
             values      == client_cells(client_id, a, strftime_stamp(t))
         IN  [rows |-> write_cells(rows, LeadColumns, next_row, values, 1),
              writes |-> cell_writes(next_row, values),
              ret |-> [success |-> TRUE, client_id |-> client_id,
                       nombre |-> a.nombre, canal |-> a.canal,
                       thread_id |-> a.thread_id]]

\* the loop over fields.items(): a key of col_map is written, another is
\* skipped; st carries the rows, the update_cell calls and the keys written
RECURSIVE update_fields(_, _, _, _, _)
update_fields(st, cols, idx, fields, k) ==
    IF k > Len(fields) THEN st
    ELSE LET key   == fields[k][1]
             value == fields[k][2]
             col   == col_map(cols, key)
         IN  IF col # 0
             THEN update_fields(
                      [rows |-> update_cell(st.rows, cols, idx, col, value),
                       writes |-> Append(st.writes,
                                         [row |-> idx, col |-> col, value |-> value]),
                       updated |-> Append(st.updated, key)],
                      cols, idx, fields, k + 1)
             ELSE update_fields(st, cols, idx, fields, k + 1)

\* enumerate(all_records, start=2): the sheet row of the first record whose
\* Id is id, or 0
first_row_with(all_records, column, id) ==
    LET hits == { i \in 1..Len(all_records) : str(all_records[i][column]) = str(id) }
    IN  IF hits = {} THEN 0
        ELSE 1 + CHOOSE i \in hits : \A j \in hits : i <= j

\* lines 197-246
update_client_dynamic(rows, client_id, fields) ==
    IF ~truthy(client_id)
    THEN [rows |-> rows, writes |-> <<>>,
          ret |-> [success |-> FALSE, error |-> "client_id requerido"]]
    ELSE IF fields = <<>>
    THEN [rows |-> rows, writes |-> <<>>,
          ret |-> [success |-> FALSE, error |-> "No se proporcionaron campos"]]
    ELSE LET resolved_id == resolve_client_id(rows, client_id)
             idx == first_row_with(get_all_records(rows), "Id", resolved_id)
         IN  IF ~truthy(resolved_id)
             THEN [rows |-> rows, writes |-> <<>>,
                   ret |-> [success |-> FALSE,
                            error |-> "No se encontro cliente con ID o telefono"]]
             ELSE IF idx = 0
             THEN [rows |-> rows, writes |-> <<>>,
                   ret |-> [success |-> FALSE, error |-> "Cliente con ID no encontrado"]]
             ELSE LET st == update_fields([rows |-> rows, writes |-> <<>>,
                                           updated |-> <<>>],
                                          LeadColumns, idx, fields, 1)
                  IN  [rows |-> st.rows, writes |-> st.writes,
                       ret |-> [success |-> TRUE, client_id |-> resolved_id,
                                updated_fields |-> st.updated]]

-----------------------------------------------------------------------------
(* ProjectService (project_service.py), on the worksheet "Projects" *)

\* line 73: f"PRJ-{datetime.now(tz).strftime('%Y%m%d%H%M%S')}"
project_id_of(t) == <<"P", "R", "J", "-">> \o strftime_compact(t)

\* lines 77-85: the nine values, in column order
project_cells(project_id, a, fecha_creada) ==
    <<project_id, a.nombre, or_empty(a.descripcion), or_empty(a.servicio),
      a.estado, or_empty(a.nota),
      IF truthy(a.fecha_inicio) THEN a.fecha_inicio ELSE fecha_creada,
      or_empty(a.fecha_fin), a.id_cliente>>

\* lines 58-94
create_project(rows, a, t) ==
    IF ~truthy(a.nombre) \/ ~truthy(a.id_cliente)
    THEN [rows |-> rows, writes |-> <<>>,
          ret |-> [success |-> FALSE,
                   error |-> "Campos requeridos: nombre e id_cliente"]]
    ELSE LET all_records  == get_all_records(rows)
             fecha_creada == strftime_stamp(t)
             project_id   == project_id_of(t)
             next_row     == Len(all_records) + 2
             values       == project_cells(project_id, a, fecha_creada)
         IN  [rows |-> write_cells(rows, ProjectColumns, next_row, values, 1),
              writes |-> cell_writes(next_row, values),
              ret |-> [success |-> TRUE, project_id |-> project_id,
                       nombre |-> a.nombre, id_cliente |-> a.id_cliente,
                       estado |-> a.estado, fecha_creada |-> fecha_creada]]

\* list(fields.keys())
keys_of(fields) == [k \in 1..Len(fields) |-> fields[k][1]]

\* lines 217-254
update_project(rows, project_id, fields) ==
    IF ~truthy(project_id)
    THEN [rows |-> rows, writes |-> <<>>,
          ret |-> [success |-> FALSE, error |-> "project_id requerido"]]
    ELSE IF fields = <<>>
    THEN [rows |-> rows, writes |-> <<>>,
          ret |-> [success |-> FALSE, error |-> "No se proporcionaron campos"]]
    ELSE LET idx == first_row_with(get_all_records(rows), "Id", project_id)
         IN  IF idx = 0
             THEN [rows |-> rows, writes |-> <<>>,
                   ret |-> [success |-> FALSE, error |-> "No se encontro proyecto"]]
             ELSE LET st == update_fields([rows |-> rows, writes |-> <<>>,
                                           updated |-> <<>>],
                                          ProjectColumns, idx, fields, 1)
                  IN  [rows |-> st.rows, writes |-> st.writes,
                       ret |-> [success |-> TRUE, project_id |-> project_id,
                                updated_fields |-> keys_of(fields)]]

-----------------------------------------------------------------------------
(* MeetingService (meeting_service.py), on the worksheet "Meetings" *)

\* lines 58-66: the nine values, in column order
meeting_cells(a, fecha_creada) ==
    <<a.calendar_id, a.asunto, or_empty(a.detalles), a.fecha_inicio,
      or_empty(a.meet_link), or_empty(a.calendar_link), a.estado,
      fecha_creada, a.id_cliente>>

\* lines 42-76
create_meeting(rows, a, t) ==
    IF ~truthy(a.calendar_id) \/ ~truthy(a.asunto)
         \/ ~truthy(a.fecha_inicio) \/ ~truthy(a.id_cliente)
    THEN [rows |-> rows, writes |-> <<>>,
          ret |-> [success |-> FALSE,
                   error |-> "Campos requeridos: calendar_id, asunto, fecha_inicio e id_cliente"]]
    ELSE LET all_records  == get_all_records(rows)
             fecha_creada == strftime_stamp(t)
             next_row     == Len(all_records) + 2
             values       == meeting_cells(a, fecha_creada)
         IN  [rows |-> write_cells(rows, MeetingColumns, next_row, values, 1),
              writes |-> cell_writes(next_row, values),
              ret |-> [success |-> TRUE, calendar_id |-> a.calendar_id,
                       asunto |-> a.asunto, fecha_inicio |-> a.fecha_inicio,
                       id_cliente |-> a.id_cliente, estado |-> a.estado,
                       fecha_creada |-> fecha_creada]]

\* lines 163-200
update_meeting(rows, calendar_id, fields) ==
    IF ~truthy(calendar_id)
    THEN [rows |-> rows, writes |-> <<>>,
          ret |-> [success |-> FALSE, error |-> "calendar_id requerido"]]
    ELSE IF fields = <<>>
    THEN [rows |-> rows, writes |-> <<>>,
          ret |-> [success |-> FALSE, error |-> "No se proporcionaron campos"]]
    ELSE LET idx == first_row_with(get_all_records(rows), "Id", calendar_id)
         IN  IF idx = 0
             THEN [rows |-> rows, writes |-> <<>>,
                   ret |-> [success |-> FALSE, error |-> "No se encontro reunion"]]
             ELSE LET st == update_fields([rows |-> rows, writes |-> <<>>,
                                           updated |-> <<>>],
                                          MeetingColumns, idx, fields, 1)
                  IN  [rows |-> st.rows, writes |-> st.writes,
                       ret |-> [success |-> TRUE, calendar_id |-> calendar_id,
                                updated_fields |-> keys_of(fields)]]

-----------------------------------------------------------------------------
(* SpecSheet: calls of the sheet services on one worksheet *)

\* what shortuuid.ShortUUID().random(length=6) may give
ClientIdPool == { <<"K", "7">>, <<"Q", "b">> }

\* arguments of create_client: a phone with a leading zero; an e-mail with a
\* capital and no phone; a phone and a user; no nombre
ClientArgs ==
    LET base == [nombre |-> <<"A">>, canal |-> <<"w">>, telefono |-> None,
                 correo |-> None, nota |-> None, usuario |-> None,
                 thread_id |-> None]
    IN  { [base EXCEPT !.telefono = <<"0", "7">>],
          [base EXCEPT !.correo = <<"A", "@", "x">>],
          [base EXCEPT !.telefono = <<"7">>, !.usuario = <<"u">>],
          [base EXCEPT !.nombre = <<>>] }

\* arguments of verify_client
VerifyArgs ==
    LET none == [telefono |-> None, correo |-> None, usuario |-> None]
    IN  { [none EXCEPT !.telefono = <<"0", "7">>],
          [none EXCEPT !.telefono = <<"7">>],
          [none EXCEPT !.correo = <<"A", "@", "x">>],
          [none EXCEPT !.usuario = <<"u">>],
          none }

\* identifiers given to update_client_dynamic and resolve_client_id: ids, a
\* phone, a name that is neither, nothing
Identifiers == ClientIdPool \cup { <<"7">>, <<"z", "z">>, None }

\* field maps given to update_client_dynamic, as fields.items() lists them:
\* a column; a name that is no column, then a column; none
ClientFields ==
    { << <<"Nota", <<"o", "k">>>> >>,
      << <<"Email", <<"e">>>>, <<"Nota", <<"o", "k">>>> >>,
      <<>> }

ProjectArgs ==
    LET base == [nombre |-> <<"W">>, id_cliente |-> <<"K", "7">>,
                 servicio |-> None, descripcion |-> None, fecha_inicio |-> None,
                 fecha_fin |-> None, estado |-> <<"E">>, nota |-> None]
    IN  { base, [base EXCEPT !.nombre = <<>>] }

ProjectIds == { project_id_of(t) : t \in 0..MaxClock } \cup { <<"P">>, None }

ProjectFields ==
    { << <<"Nota", <<"o", "k">>>> >>,
      << <<"Cliente", <<"Q", "b">>>>, <<"Estado", <<"o", "k">>>> >>,
      <<>> }

MeetingArgs ==
    LET base == [calendar_id |-> <<"e", "1">>, asunto |-> <<"d">>,
                 fecha_inicio |-> <<"t", "0">>, id_cliente |-> <<"K", "7">>,
                 detalles |-> None, meet_link |-> None, calendar_link |-> None,
                 estado |-> <<"P">>]
    IN  { base, [base EXCEPT !.calendar_id = <<"e", "2">>],
          [base EXCEPT !.asunto = <<>>] }

MeetingIds == { <<"e", "1">>, <<"e", "2">>, <<"e", "3">>, None }

MeetingFields ==
    { << <<"Estado", <<"o", "k">>>> >>,
      << <<"Link", <<"m">>>>, <<"Detalles", <<"o", "k">>>> >>,
      <<>> }

InitSheet ==
    /\ DayIdle /\ ScanIdle /\ BookIdle /\ HandleIdle /\ StepIdle
    /\ ws_name \in {"Lead", "Projects", "Meetings"}
    /\ ws_rows = <<>>
    /\ clock = 0
    /\ sh_call = NoCall /\ sh_ret = NoCall /\ sh_writes = <<>> /\ sh_created = NoCall

\* a service call that grows the worksheet is made while there is room
Room(r) == Len(r.rows) <= MaxRows

\* the wall clock passes to the next second (followed on the worksheet whose
\* ids are made of it)
Tick ==
    /\ ws_name = "Projects"
    /\ clock < MaxClock
    /\ clock' = clock + 1
    /\ UNCHANGED <<ws_name, ws_rows, sh_call, sh_ret, sh_writes, sh_created,
                   day_vars, scan_vars, book_vars,
                   handle_vars, step_vars>>

\* CRMService.create_client
CreateClient ==
    /\ ws_name = "Lead"
    /\ \E a \in ClientArgs, client_id \in ClientIdPool :
         LET r == create_client(ws_rows, a, client_id, clock)
         IN  /\ Room(r)
             /\ ws_rows' = r.rows
             /\ sh_call' = [op |-> "create_client", args |-> a]
             /\ sh_ret' = r.ret
             /\ sh_writes' = r.writes
             /\ sh_created' = IF r.ret.success
                              THEN [client_id |-> r.ret.client_id, args |-> a]
                              ELSE sh_created
    /\ UNCHANGED <<ws_name, clock, day_vars, scan_vars, book_vars,
                   handle_vars, step_vars>>

\* CRMService.verify_client
VerifyClient ==
    /\ ws_name = "Lead"
    /\ \E a \in VerifyArgs :
         /\ sh_call' = [op |-> "verify_client", args |-> a]
         /\ sh_ret' = verify_client(ws_rows, a.telefono, a.correo, a.usuario)
    /\ sh_writes' = <<>>
    /\ UNCHANGED <<ws_name, ws_rows, clock, sh_created, day_vars, scan_vars, book_vars,
                   handle_vars, step_vars>>

\* CRMService.resolve_client_id
ResolveClientId ==
    /\ ws_name = "Lead"
    /\ \E ident \in Identifiers :
         /\ sh_call' = [op |-> "resolve_client_id", client_id |-> ident]
         /\ sh_ret' = [client_id |-> resolve_client_id(ws_rows, ident)]
    /\ sh_writes' = <<>>
    /\ UNCHANGED <<ws_name, ws_rows, clock, sh_created, day_vars, scan_vars, book_vars,
                   handle_vars, step_vars>>

\* CRMService.update_client_dynamic
UpdateClient ==
    /\ ws_name = "Lead"
    /\ \E ident \in Identifiers, fields \in ClientFields :
         LET r == update_client_dynamic(ws_rows, ident, fields)
         IN  /\ ws_rows' = r.rows
             /\ sh_call' = [op |-> "update_client_dynamic", client_id |-> ident,
                            fields |-> fields]
             /\ sh_ret' = r.ret
             /\ sh_writes' = r.writes
             /\ sh_created' = IF r.writes = <<>> THEN sh_created ELSE NoCall
    /\ UNCHANGED <<ws_name, clock, day_vars, scan_vars, book_vars,
                   handle_vars, step_vars>>

\* ProjectService.create_project
CreateProject ==
    /\ ws_name = "Projects"
    /\ \E a \in ProjectArgs :
         LET r == create_project(ws_rows, a, clock)
         IN  /\ Room(r)
             /\ ws_rows' = r.rows
             /\ sh_call' = [op |-> "create_project", args |-> a]
             /\ sh_ret' = r.ret
             /\ sh_writes' = r.writes
    /\ UNCHANGED <<ws_name, clock, sh_created, day_vars, scan_vars, book_vars,
                   handle_vars, step_vars>>

\* ProjectService.update_project
UpdateProject ==
    /\ ws_name = "Projects"
    /\ \E id \in ProjectIds, fields \in ProjectFields :
         LET r == update_project(ws_rows, id, fields)
         IN  /\ ws_rows' = r.rows
             /\ sh_call' = [op |-> "update_project", project_id |-> id,
                            fields |-> fields]
             /\ sh_ret' = r.ret
             /\ sh_writes' = r.writes
    /\ UNCHANGED <<ws_name, clock, sh_created, day_vars, scan_vars, book_vars,
                   handle_vars, step_vars>>

\* MeetingService.create_meeting
CreateMeeting ==
    /\ ws_name = "Meetings"
    /\ \E a \in MeetingArgs :
         LET r == create_meeting(ws_rows, a, clock)
         IN  /\ Room(r)
             /\ ws_rows' = r.rows
             /\ sh_call' = [op |-> "create_meeting", args |-> a]
             /\ sh_ret' = r.ret
             /\ sh_writes' = r.writes
    /\ UNCHANGED <<ws_name, clock, sh_created, day_vars, scan_vars, book_vars,
                   handle_vars, step_vars>>

\* MeetingService.update_meeting
UpdateMeeting ==
    /\ ws_name = "Meetings"
    /\ \E id \in MeetingIds, fields \in MeetingFields :
         LET r == update_meeting(ws_rows, id, fields)
         IN  /\ ws_rows' = r.rows
             /\ sh_call' = [op |-> "update_meeting", calendar_id |-> id,
                            fields |-> fields]
             /\ sh_ret' = r.ret
             /\ sh_writes' = r.writes
    /\ UNCHANGED <<ws_name, clock, sh_created, day_vars, scan_vars, book_vars,
                   handle_vars, step_vars>>

NextSheet ==
    \/ Tick
    \/ CreateClient \/ VerifyClient \/ ResolveClientId \/ UpdateClient
    \/ CreateProject \/ UpdateProject
    \/ CreateMeeting \/ UpdateMeeting

SpecSheet == InitSheet /\ [][NextSheet]_vars

-----------------------------------------------------------------------------
(* Observations on the worksheet *)

\* the name of the last service call
LastOp == IF "op" \in DOMAIN sh_call THEN sh_call.op ELSE "none"
Succeeded == "success" \in DOMAIN sh_ret /\ sh_ret.success

RowsWithId(id) == { i \in 1..Len(ws_rows) : ws_rows[i]["Id"] = id }

\* the column names of the cells the last call wrote
WrittenKeys == { ColumnsOf(ws_name)[sh_writes[i].col] : i \in 1..Len(sh_writes) }
ListedKeys == { sh_ret.updated_fields[i] : i \in 1..Len(sh_ret.updated_fields) }

-----------------------------------------------------------------------------
(* C15 *)

\* C15: right after a successful create_project, the project_id it returned
\* is the Id of one row only: the row it wrote.
C15_FreshProjectId ==
    (LastOp = "create_project" /\ Succeeded) =>
        Cardinality(RowsWithId(sh_ret.project_id)) = 1

-----------------------------------------------------------------------------
(* C16 *)

\* C16: when an update call returns success, updated_fields lists exactly the
\* field names whose cells it wrote, all of them columns of the worksheet.
C16_UpdatedFields ==
    (LastOp \in {"update_client_dynamic", "update_project", "update_meeting"}
       /\ Succeeded) =>
        /\ ListedKeys = WrittenKeys
        /\ ListedKeys \subseteq ColumnSet(ColumnsOf(ws_name))

\* the part of C16 that update_client_dynamic keeps
C16_ClientUpdatedFields ==
    (LastOp = "update_client_dynamic" /\ Succeeded) =>
        /\ ListedKeys = WrittenKeys
        /\ ListedKeys \subseteq ColumnSet(LeadColumns)
        /\ Len(sh_ret.updated_fields) = Len(sh_writes)

-----------------------------------------------------------------------------
(* C17 *)

\* C17: an update_client_dynamic whose client_id is the Id of a row writes
\* cells of rows of that Id only and, given fields, returns success with that
\* Id.  (No field map of the model writes the Id column, so the Ids after the
\* call are the Ids before it.)
C17_UpdatesOwnRow ==
    (LastOp = "update_client_dynamic" /\ RowsWithId(sh_call.client_id) # {}) =>
        /\ \A i \in 1..Len(sh_writes) :
               (sh_writes[i].row - 1) \in RowsWithId(sh_call.client_id)
        /\ sh_call.fields # <<>> =>
               (Succeeded /\ sh_ret.client_id = sh_call.client_id)

-----------------------------------------------------------------------------
(* C18 *)

\* the identifier is a row's Id, or has the digits of a row's phone number
KnownIdentifier(ident) ==
    \E i \in 1..Len(ws_rows) :
        \/ ws_rows[i]["Id"] = ident
        \/ /\ ws_rows[i]["Telefono"] # <<>>
           /\ digits_of(ws_rows[i]["Telefono"]) = digits_of(str(ident))

\* C18: for an identifier that is no row's Id and no client's phone number,
\* resolve_client_id returns None, and update_client_dynamic returns
\* success = false and writes no cell.
C18_UnknownIdentifier ==
    /\ (LastOp = "resolve_client_id" /\ ~KnownIdentifier(sh_call.client_id)) =>
           sh_ret.client_id = None
    /\ (LastOp = "update_client_dynamic" /\ ~KnownIdentifier(sh_call.client_id)) =>
           (~Succeeded /\ sh_writes = <<>>)

-----------------------------------------------------------------------------
(* C19 *)

\* the verify_client call names identifiers, each as given to create_client
GivenAtCreation(v, c) ==
    /\ truthy(v.telefono) \/ truthy(v.correo) \/ truthy(v.usuario)
    /\ truthy(v.telefono) => v.telefono = c.telefono
    /\ truthy(v.correo) => v.correo = c.correo
    /\ truthy(v.usuario) => v.usuario = c.usuario

\* C19: a verify_client that follows a successful create_client (no cell
\* written in between) with an identifier given at creation returns
\* exists = true and the created client_id.
C19_CreateThenVerify ==
    (LastOp = "verify_client" /\ sh_created # NoCall
       /\ GivenAtCreation(sh_call.args, sh_created.args)) =>
        /\ sh_ret.exists = TRUE
        /\ sh_ret.client_id = sh_created.client_id

-----------------------------------------------------------------------------
(* C20 *)

\* the record get_all_records gives for the first row of that Id
RecordOf(id) ==
    LET all_records == get_all_records(ws_rows)
    IN  all_records[first_row_with(all_records, "Id", id) - 1]

\* C20: right after update_client_dynamic returned success for a field map,
\* the record of the client it names holds, under every field name of the
\* map, the value given.
C20_UpdateThenRead ==
    (LastOp = "update_client_dynamic" /\ Succeeded) =>
        \A k \in 1..Len(sh_call.fields) :
            /\ sh_call.fields[k][1] \in DOMAIN RecordOf(sh_ret.client_id)
            /\ RecordOf(sh_ret.client_id)[sh_call.fields[k][1]] = sh_call.fields[k][2]

-----------------------------------------------------------------------------
(* SpecService: CalendarService.get_service over the invocations of a process *)

\* most get_service calls followed
MaxGets == 4

\* the token file as get_credentials finds it: absent; without content; not
\* JSON; JSON without the fields of authorized-user info; well formed
TokenStates == {"missing", "empty", "malformed", "incomplete", "valid"}

\* get_credentials, lines 45-63: the credentials, or the exception raised
get_credentials(token) ==
    CASE token = "missing"    -> [raised |-> "FileNotFoundError"]
      [] token = "empty"      -> [raised |-> "ValueError: vacio o corrupto"]
      [] token = "malformed"  -> [raised |-> "ValueError: formato JSON invalido"]
      [] token = "incomplete" -> [raised |-> "ValueError: missing fields"]
      [] token = "valid"      -> [creds |-> "creds"]

\* build("calendar", "v3", credentials=creds): the n-th client object built
build(n) == <<"client", n>>

\* if CalendarService._service is None
must_build_always(handle) == TRUE
must_build(handle) == handle = None

InitService ==
    /\ DayIdle /\ ScanIdle /\ BookIdle /\ SheetIdle /\ StepIdle
    /\ token_file \in TokenStates
    /\ service = None
    /\ builds = 0
    /\ attempts = 0
    /\ got = <<>>

\* the token file is put in place, removed or rewritten between invocations
WriteToken ==
    /\ \E t \in TokenStates \ {token_file} : token_file' = t
    /\ UNCHANGED <<service, builds, attempts, got,
                   day_vars, scan_vars, book_vars, sheet_vars, step_vars>>

\* get_service, lines 67-72, as the first statement of a tool invocation
GetService ==
    /\ Len(got) < MaxGets
    /\ IF must_build(service)
       THEN LET creds == get_credentials(token_file)
            IN  /\ attempts' = attempts + 1
                /\ IF Raised(creds)
                   THEN /\ got' = Append(got, creds)
                        /\ UNCHANGED <<service, builds>>
                   ELSE /\ builds' = builds + 1
                        /\ service' = build(builds + 1)
                        /\ got' = Append(got, [handle |-> service'])
       ELSE /\ got' = Append(got, [handle |-> service])
            /\ UNCHANGED <<service, builds, attempts>>
    /\ UNCHANGED <<token_file, day_vars, scan_vars, book_vars, sheet_vars, step_vars>>

NextService == WriteToken \/ GetService

SpecService == InitService /\ [][NextService]_vars

-----------------------------------------------------------------------------
(* C25 *)

\* C25: at most one client is ever built; once built, the handle never
\* changes, no further construction is attempted and every later get_service
\* returns that handle; a get_service that fails leaves the handle unset, and
\* every get_service made while the handle is unset attempts a construction.
C25_Singleton ==
    /\ [](builds <= 1)
    /\ []((service = None) <=> (builds = 0))
    /\ [](\A i \in 1..Len(got) : ~Raised(got[i]) => got[i].handle = service)
    /\ [](\A i, j \in 1..Len(got) : (i < j /\ ~Raised(got[i])) => got[j] = got[i])
    /\ [][service # None =>
              (service' = service /\ builds' = builds /\ attempts' = attempts)]_vars
    /\ [][(got' # got /\ service = None) =>
              /\ attempts' = attempts + 1
              /\ IF token_file = "valid"
                 THEN service' # None /\ got'[Len(got')] = [handle |-> service']
                 ELSE service' = None /\ Raised(got'[Len(got')])]_vars

\* two invocations failed on a missing and then a malformed token file, the
\* third built the client, and the fourth got the same handle although the
\* token file had been removed again
C25_Witness ==
    /\ Len(got) = 4
    /\ got[1] = [raised |-> "FileNotFoundError"]
    /\ got[2] = [raised |-> "ValueError: formato JSON invalido"]
    /\ got[3] = [handle |-> build(1)]
    /\ got[4] = got[3]
    /\ attempts = 3
    /\ builds = 1
    /\ token_file = "missing"

-----------------------------------------------------------------------------
(* SpecSteps: CRMService.create_client, one sheet request at a time, by two
   server processes on the same worksheet *)

\* the row a list of twelve values makes once all of them are written
row_of(values) ==
    [c \in ColumnSet(LeadColumns) |-> values[col_map(LeadColumns, c)]]

\* the values a started call writes
cells_of(call) == client_cells(call.client_id, call.args, call.fecha_actual)

\* str(e) of the error a sheet request raises
APIError == <<"A", "P", "I">>

\* shortuuid gives the two processes different ids
FreshIds(p) ==
    { id \in ClientIdPool :
        \A q \in Procs \ {p} : cc_pc[q] = "off" \/ ~("client_id" \in DOMAIN cc_call[q])
                                \/ cc_call[q].client_id # id }

InitSteps ==
    /\ DayIdle /\ ScanIdle /\ BookIdle /\ HandleIdle
    /\ ws_name = "Lead"
    /\ ws_rows = <<>>
    /\ clock = 0
    /\ sh_call = NoCall /\ sh_ret = NoCall /\ sh_writes = <<>> /\ sh_created = NoCall
    /\ cc_pc = [p \in Procs |-> "off"]
    /\ cc_call = [p \in Procs |-> NoCall]
    /\ cc_done = [p \in Procs |-> 0]
    /\ cc_ret = [p \in Procs |-> NoCall]

\* lines 140-144: nombre or canal missing, returned before any sheet request
ClientRejected(p) ==
    /\ cc_pc[p] = "off"
    /\ \E a \in ClientArgs :
         /\ ~truthy(a.nombre) \/ ~truthy(a.canal)
         /\ cc_call' = [cc_call EXCEPT ![p] = [args |-> a, before |-> ws_rows]]
    /\ cc_ret' = [cc_ret EXCEPT ![p] =
                     [success |-> FALSE,
                      error |-> "Los campos 'nombre' y 'canal' son requeridos"]]
    /\ cc_pc' = [cc_pc EXCEPT ![p] = "done"]
    /\ UNCHANGED <<cc_done, sheet_vars, day_vars, scan_vars, book_vars, handle_vars>>

\* lines 146-152: the records are read and the row number is fixed
ClientBegin(p) ==
    /\ cc_pc[p] = "off"
    /\ \E a \in ClientArgs, client_id \in FreshIds(p) :
         /\ truthy(a.nombre) /\ truthy(a.canal)
         /\ cc_call' = [cc_call EXCEPT ![p] =
                           [args |-> a, before |-> ws_rows,
                            fecha_actual |-> strftime_stamp(clock),
                            client_id |-> client_id,
                            next_row |-> Len(get_all_records(ws_rows)) + 2]]
    /\ cc_pc' = [cc_pc EXCEPT ![p] = "writing"]
    /\ UNCHANGED <<cc_done, cc_ret, sheet_vars, day_vars, scan_vars, book_vars,
                   handle_vars>>

\* lines 146-148 raise: the spreadsheet cannot be opened or read
ClientBeginFails(p) ==
    /\ cc_pc[p] = "off"
    /\ \E a \in ClientArgs :
         /\ truthy(a.nombre) /\ truthy(a.canal)
         /\ cc_call' = [cc_call EXCEPT ![p] = [args |-> a, before |-> ws_rows]]
    /\ cc_ret' = [cc_ret EXCEPT ![p] = [success |-> FALSE, error |-> APIError]]
    /\ cc_pc' = [cc_pc EXCEPT ![p] = "done"]
    /\ UNCHANGED <<cc_done, sheet_vars, day_vars, scan_vars, book_vars, handle_vars>>

\* one of lines 155-166: worksheet.update_cell(next_row, k, value); after the
\* twelfth, the return of lines 168-174
ClientWriteCell(p) ==
    /\ cc_pc[p] = "writing"
    /\ LET call == cc_call[p]
           k    == cc_done[p] + 1
       IN  /\ ws_rows' = update_cell(ws_rows, LeadColumns, call.next_row, k,
                                     cells_of(call)[k])
           /\ cc_done' = [cc_done EXCEPT ![p] = k]
           /\ IF k = Len(LeadColumns)
              THEN /\ cc_pc' = [cc_pc EXCEPT ![p] = "done"]
                   /\ cc_ret' = [cc_ret EXCEPT ![p] =
                                    [success |-> TRUE, client_id |-> call.client_id,
                                     nombre |-> call.args.nombre,
                                     canal |-> call.args.canal,
                                     thread_id |-> call.args.thread_id]]
              ELSE UNCHANGED <<cc_pc, cc_ret>>
    /\ UNCHANGED <<cc_call, ws_name, clock, sh_call, sh_ret, sh_writes, sh_created,
                   day_vars, scan_vars, book_vars, handle_vars>>

\* one of lines 155-166 raises; lines 176-177 return the error
ClientWriteFails(p) ==
    /\ cc_pc[p] = "writing"
    /\ cc_ret' = [cc_ret EXCEPT ![p] = [success |-> FALSE, error |-> APIError]]
    /\ cc_pc' = [cc_pc EXCEPT ![p] = "done"]
    /\ UNCHANGED <<cc_call, cc_done, sheet_vars, day_vars, scan_vars, book_vars,
                   handle_vars>>

NextSteps ==
    \E p \in Procs :
        \/ ClientRejected(p)
        \/ ClientBegin(p)
        \/ ClientBeginFails(p)
        \/ ClientWriteCell(p)
        \/ ClientWriteFails(p)

SpecSteps == InitSteps /\ [][NextSteps]_vars

-----------------------------------------------------------------------------
(* C28, C29 *)

ClientSucceeded(p) == cc_pc[p] = "done" /\ cc_ret[p].success
ClientFailed(p) == cc_pc[p] = "done" /\ ~cc_ret[p].success

\* C28: when two create_client calls whose requests interleaved have both
\* returned success, the worksheet holds two different rows, one with the
\* twelve values of each call.
C28_TwoWholeRows ==
    (\A p \in Procs : ClientSucceeded(p)) =>
        \E f \in [Procs -> 1..Len(ws_rows)] :
            /\ \A p, q \in Procs : p # q => f[p] # f[q]
            /\ \A p \in Procs : ws_rows[f[p]] = row_of(cells_of(cc_call[p]))

\* C29: when a create_client call made alone has returned success = false,
\* the worksheet holds the rows it held when the call began.
C29_FailureLeavesSheet ==
    \A p \in Procs :
        (ClientFailed(p) /\ \A q \in Procs \ {p} : cc_pc[q] = "off") =>
            ws_rows = cc_call[p].before

=============================================================================
